---- MODULE Spec2Model ----
(***************************************************************************)
(* Model of the shoot360 dashboard back end: the location directory built  *)
(* at start-up and the /locations, /stats/:location and /stats handlers of *)
(* the server variants kept in src/.                                       *)
(*                                                                         *)
(* Text is modelled as a sequence of one-character strings, so that        *)
(* trimming, lower-casing, hyphenating and substring matching are computed *)
(* and not assumed.  Times are milliseconds since the model's epoch.       *)
(***************************************************************************)
EXTENDS Integers, Sequences, FiniteSets, TLC

\* ------------------------------------------------------------------ bounds
\* pipelines a location may have
MaxPipes == 2

\* sub-accounts the agency may list (locationsCache variant)
MaxSubs == 2

\* ------------------------------------------------------- program constants
perPage == 50
DayMs == 86400000
EndOfDay == 86399999

\* ------------------------------------------------------------ generic help
Range(s) == {s[i] : i \in 1..Len(s)}

SeqsUpTo(S, n) == UNION {[1..k -> S] : k \in 0..n}

RECURSIVE SumSeq(_)
SumSeq(s) == IF s = <<>> THEN 0 ELSE s[1] + SumSeq(Tail(s))

\* Array.prototype.filter: the elements of s that pass the test, in their order
\* (passing is the set of values that pass)
Filter(s, passing) ==
    LET idx == {i \in 1..Len(s) : s[i] \in passing}
        nth(j) == CHOOSE i \in idx : Cardinality({k \in idx : k <= i}) = j
    IN  [j \in 1..Cardinality(idx) |-> s[nth(j)]]

\* ------------------------------------------------------------------- text
LowerCh(c) ==
    CASE c = "A" -> "a" [] c = "B" -> "b" [] c = "S" -> "s" [] c = "L" -> "l"
      [] c = "N" -> "n" [] c = "W" -> "w" [] OTHER -> c

IsWs(c) == c = " "

\* String.prototype.toLowerCase
toLowerCase(s) == [i \in 1..Len(s) |-> LowerCh(s[i])]

\* String.prototype.trim
RECURSIVE trimLeft(_)
trimLeft(s) == IF s # <<>> /\ IsWs(s[1]) THEN trimLeft(Tail(s)) ELSE s

RECURSIVE trimRight(_)
trimRight(s) ==
    IF s # <<>> /\ IsWs(s[Len(s)]) THEN trimRight(SubSeq(s, 1, Len(s) - 1)) ELSE s

trim(s) == trimRight(trimLeft(s))

\* s.replace(/\s+/g, "-"): every maximal run of white space becomes one "-"
RECURSIVE hyphenate(_)
hyphenate(s) ==
    IF s = <<>> THEN <<>>
    ELSE IF IsWs(s[1])
         THEN <<"-">> \o hyphenate(trimLeft(s))
         ELSE <<s[1]>> \o hyphenate(Tail(s))

\* String.prototype.includes
includes(hay, needle) ==
    \E i \in 1..(Len(hay) + 1) :
        /\ i + Len(needle) - 1 <= Len(hay)
        /\ SubSeq(hay, i, i + Len(needle) - 1) = needle

\* ------------------------------------------------------- plain JS objects
(* An object literal {} used as a map is a sequence of [key, val] entries   *)
(* in insertion order.  Assigning to an existing key keeps its position.   *)
ProtoKeys == { <<"constructor">>, <<"__proto__">> }

Inherited == [inherited |-> TRUE]

Undefined == [undefined |-> TRUE]

HasOwn(obj, k) == \E i \in 1..Len(obj) : obj[i].key = k

OwnVal(obj, k) == obj[CHOOSE i \in 1..Len(obj) : obj[i].key = k].val

\* obj[k]: own property, else what Object.prototype supplies, else undefined
Get(obj, k) ==
    IF HasOwn(obj, k) THEN OwnVal(obj, k)
    ELSE IF k \in ProtoKeys THEN Inherited
    ELSE Undefined

Truthy(v) == v # Undefined

\* obj[k] = v
Put(obj, k, v) ==
    IF HasOwn(obj, k)
    THEN [i \in 1..Len(obj) |-> IF obj[i].key = k THEN [key |-> k, val |-> v] ELSE obj[i]]
    ELSE Append(obj, [key |-> k, val |-> v])

\* Object.keys(obj)
Keys(obj) == [i \in 1..Len(obj) |-> obj[i].key]

\* ------------------------------------------------------------------ dates
(* A date string of a query or of a CRM record: absent, empty, unparseable, *)
(* or a date whose Date.parse value is ms.                                  *)
NoDate == [kind |-> "none", ms |-> 0]

BadDate == [kind |-> "bad", ms |-> 0]

EmptyDate == [kind |-> "empty", ms |-> 0]

DateOf(ms) == [kind |-> "date", ms |-> ms]

\* JS truthiness of a query string value
Given(d) == d.kind \notin {"none", "empty"}

\* Date.parse: a number, or NaN
DateParse(d) == IF d.kind = "date" THEN [nan |-> FALSE, v |-> d.ms] ELSE [nan |-> TRUE, v |-> 0]

isNaN(n) == n.nan

\* n < m and n > m for a parsed number n and a finite m (false when n is NaN)
lt(n, m) == ~n.nan /\ n.v < m

gt(n, m) == ~n.nan /\ n.v > m

\* new Date(ms).toISOString().slice(0,10), as the index of the UTC day
IsoDay(ms) == ms \div DayMs

\* now - 1000*60*60*24*30 (subtracted in two halves: 30 days of ms exceed 2^31)
ThirtyDaysBefore(now) == (now - 15 * DayMs) - 15 * DayMs

\* dateRange with the end of the window one millisecond short of the day's last
dateRangeShort(query, now) ==
    LET s == DateParse(query.startDate)
        e == DateParse(query.endDate)
    IN  IF Given(query.startDate) /\ Given(query.endDate) /\ ~isNaN(s) /\ ~isNaN(e)
        THEN [start |-> s.v, end |-> e.v + EndOfDay - 1]
        ELSE [start |-> ThirtyDaysBefore(now), end |-> now]

\* dateRange taking the explicit window as soon as startDate parses
dateRangeLoose(query, now) ==
    LET s == DateParse(query.startDate)
        e == DateParse(query.endDate)
    IN  IF Given(query.startDate) /\ ~isNaN(s)
        THEN [start |-> s.v, end |-> e.v + EndOfDay]
        ELSE [start |-> ThirtyDaysBefore(now), end |-> now]

\* function dateRange(req)
dateRange(query, now) ==
    LET s == DateParse(query.startDate)
        e == DateParse(query.endDate)
    IN  IF Given(query.startDate) /\ Given(query.endDate) /\ ~isNaN(s) /\ ~isNaN(e)
        THEN [start |-> s.v, end |-> e.v + EndOfDay]
        ELSE [start |-> ThirtyDaysBefore(now), end |-> now]

\* --------------------------------------------------------------- upstream
(* One paginated CRM list endpoint: the collection it holds and the page   *)
(* request that throws (0: none).  Page p holds items (p-1)*perPage+1 ..   *)
(* p*perPage of the collection.                                            *)
Endpoint(items, failAt) == [items |-> items, failAt |-> failAt]

Min(a, b) == IF a < b THEN a ELSE b

PageOf(ep, page) ==
    SubSeq(ep.items, (page - 1) * perPage + 1, Min(page * perPage, Len(ep.items)))

\* fetchAll going on to the next page until a page comes back empty
RECURSIVE fetchUntilEmpty(_, _, _)
fetchUntilEmpty(ep, page, all) ==
    IF ep.failAt = page
    THEN [ok |-> FALSE, all |-> <<>>, requests |-> page, asked |-> <<page>>]
    ELSE LET batch == PageOf(ep, page)
             rest == fetchUntilEmpty(ep, page + 1, all \o batch)
         IN  IF Len(batch) = 0
             THEN [ok |-> TRUE, all |-> all \o batch, requests |-> page, asked |-> <<page>>]
             ELSE [rest EXCEPT !.asked = <<page>> \o @]

\* fetchAll asking once more for a page whose request failed
RECURSIVE fetchRetrying(_, _, _)
fetchRetrying(ep, page, all) ==
    IF ep.failAt = page
    THEN [ok |-> FALSE, all |-> <<>>, requests |-> page + 1, asked |-> <<page, page>>]
    ELSE LET batch == PageOf(ep, page)
             rest == fetchRetrying(ep, page + 1, all \o batch)
         IN  IF Len(batch) < perPage
             THEN [ok |-> TRUE, all |-> all \o batch, requests |-> page, asked |-> <<page>>]
             ELSE [rest EXCEPT !.asked = <<page>> \o @]

\* fetchAll stopping at a page that is not longer than perPage (<= for <)
fetchStoppingAtFull(ep, page, all) ==
    IF ep.failAt = page
    THEN [ok |-> FALSE, all |-> <<>>, requests |-> page, asked |-> <<page>>]
    ELSE [ok |-> TRUE, all |-> all \o PageOf(ep, page), requests |-> page, asked |-> <<page>>]

RECURSIVE fetchFrom(_, _, _)
fetchFrom(ep, page, all) ==
    IF ep.failAt = page
    THEN [ok |-> FALSE, all |-> <<>>, requests |-> page, asked |-> <<page>>]
    ELSE LET batch == PageOf(ep, page)
             rest == fetchFrom(ep, page + 1, all \o batch)
         IN  IF Len(batch) < perPage
             THEN [ok |-> TRUE, all |-> all \o batch, requests |-> page, asked |-> <<page>>]
             ELSE [rest EXCEPT !.asked = <<page>> \o @]

fetchAll(ep) == fetchFrom(ep, 1, <<>>)

\* ---------------------------------------------------------------- buckets
Metrics == {"leads", "appointments", "shows", "noShows", "wins", "cold"}

Zero == [k \in Metrics |-> 0]

Bump(b, k) == [b EXCEPT ![k] = @ + 1]

\* tag strings of CRM records, and String.prototype.toLowerCase on them
lowerTag(t) ==
    CASE t = "Won" -> "won" [] t = "Youth" -> "youth" [] t = "Adult" -> "adult"
      [] t = "Leagues" -> "leagues" [] OTHER -> t

OutcomeOf(tag) ==
    CASE tag = "appointment" -> "appointments" [] tag = "show" -> "shows"
      [] tag = "no-show" -> "noShows" [] tag = "won" -> "wins" [] tag = "cold" -> "cold"

OutcomeTags == {"appointment", "show", "no-show", "won", "cold"}

\* (o.stageName || "").toLowerCase().includes("lead")
LeadStageNames == {"Lead", "New Leads"}

inLeadStage(o) == o.stageName \in LeadStageNames

\* ------------------------------------------- final variant: computeOne
(* crm is the CRM as one request sees it: crm.opps[pipelineId] and          *)
(* crm.contacts[locationId] are paginated endpoints.                        *)

\* loc.pipelines.forEach(p => byPipe[p.name] = {leads:0, ...})
initByPipe(pipelines) ==
    LET F[i \in 0..Len(pipelines)] ==
            IF i = 0 THEN <<>> ELSE Put(F[i-1], pipelines[i].name, Zero)
    IN  F[Len(pipelines)]

\* A) one pass of "for (const p of loc.pipelines)": headcount of the lead stage
leadsStep(acc, p, crm) ==
    LET r == fetchAll(crm.opps[p.id])
        headcount == Len(Filter(r.all, {o \in Range(r.all) : inLeadStage(o)}))
    IN  IF r.ok
        THEN [combined |-> [acc.combined EXCEPT !.leads = @ + headcount],
              byPipe   |-> Put(acc.byPipe, p.name,
                               [OwnVal(acc.byPipe, p.name) EXCEPT !.leads = headcount])]
        ELSE acc

leadsLoop(pipelines, crm) ==
    LET F[i \in 0..Len(pipelines)] ==
            IF i = 0 THEN [combined |-> Zero, byPipe |-> initByPipe(pipelines)]
            ELSE leadsStep(F[i-1], pipelines[i], crm)
    IN  F[Len(pipelines)]

\* contacts = [] unless fetchAll succeeds
contactsOf(loc, crm) ==
    LET r == fetchAll(crm.contacts[loc.id])
    IN  IF r.ok THEN r.all ELSE <<>>

\* the window test on dateUpdated
inWindow(c, start, end) ==
    LET updated == DateParse(c.dateUpdated)
    IN  ~(isNaN(updated) \/ lt(updated, start) \/ gt(updated, end))

lowerTags(c) == {lowerTag(c.tags[i]) : i \in 1..Len(c.tags)}

\* member.forEach(n => byPipe[n][k]++)
bumpMembers(byPipe, member, k) ==
    LET F[i \in 0..Len(member)] ==
            IF i = 0 THEN byPipe
            ELSE Put(F[i-1], member[i], Bump(OwnVal(F[i-1], member[i]), k))
    IN  F[Len(member)]

\* if (tags.includes(tag)) { combined[k]++; member.forEach(n => byPipe[n][k]++); }
tally(acc, tags, member, tag) ==
    IF tag \in tags
    THEN [combined |-> Bump(acc.combined, OutcomeOf(tag)),
          byPipe   |-> bumpMembers(acc.byPipe, member, OutcomeOf(tag))]
    ELSE acc

\* the body of "for (const c of contacts)" for a contact inside the window
foldContact(acc, c, pipelines) ==
    LET tags == lowerTags(c)
        names == [i \in 1..Len(pipelines) |-> pipelines[i].name]
        member == Filter(names, {n \in Range(names) : n \in tags})
        a1 == tally(acc, tags, member, "appointment")
        a2 == tally(a1, tags, member, "show")
        a3 == tally(a2, tags, member, "no-show")
        a4 == tally(a3, tags, member, "won")
    IN  tally(a4, tags, member, "cold")

\* for (const c of contacts) { if (outside the window) continue; ... }
\* (the contacts the loop does not skip, folded in their order)
contactsLoop(acc, contacts, pipelines, start, end) ==
    LET counted == Filter(contacts, {c \in Range(contacts) : inWindow(c, start, end)})
        F[i \in 0..Len(counted)] ==
            IF i = 0 THEN acc ELSE foldContact(F[i-1], counted[i], pipelines)
    IN  F[Len(counted)]

Thrown == [ok |-> FALSE]

computeOne(dir, crm, slug, start, end) ==
    LET loc == Get(dir, slug)
    IN  IF ~Truthy(loc) THEN Thrown                \* Unknown location
        ELSE IF loc = Inherited THEN Thrown        \* loc.pipelines is undefined
        ELSE LET a == leadsLoop(loc.pipelines, crm)
                 b == contactsLoop(a, contactsOf(loc, crm), loc.pipelines, start, end)
             IN  [ok |-> TRUE, location |-> slug,
                  combined |-> b.combined, pipelines |-> b.byPipe]

\* ================================================================== state
VARIABLES
    envKey,     \* final variant: GHL_AGENCY_KEY / GHL_API_KEY is set
    csvFile,    \* the rows of secrets/api_keys.csv, as [location, api_key]
    csvSent,    \* how many rows the CSV stream has emitted
    csvRows,    \* final variant: rows parsed so far
    agency,     \* what GET /v1/locations answers: [ok, locations]
    pc,         \* "start", "awaitLocations", "awaitPipelines", "listening", "exited"
    LOCS,       \* final variant: slug -> [id, apiKey, pipelines]
    pending,    \* slugs whose pipelines lookup is in flight
    req,        \* the last request served
    crm,        \* the CRM as that request saw it
    resp,       \* the response to it
    locationsCache, \* locationsCache variant: [id, name, slug, apiKey, pipelines] entries
    fan,        \* the fan-out (Promise.all) of the request in flight
    locations   \* required-dates variant: [slug, label, apiKey, calendars] entries

vars == <<envKey, csvFile, csvSent, csvRows, agency, pc, LOCS, pending, req, crm, resp,
          locationsCache, fan, locations>>

\* what the final variant never writes
world == <<envKey, csvFile, agency, locationsCache, fan, locations>>

\* what the locationsCache variant never writes
cacheWorld == <<envKey, csvFile, agency, csvRows, LOCS, locations>>

\* what the required-dates variant never writes
csvWorld == <<envKey, csvFile, agency, csvRows, LOCS, locationsCache, pending>>

NoReq == [route |-> "none"]

NoCrm == [opps |-> <<>>, contacts |-> <<>>]

NoResp == [status |-> 0]

NoFan == [pending |-> {}]

\* ------------------------------------------------ final variant: start-up
\* if (!AGENCY_KEY) process.exit(1); else the CSV stream is opened and init() called
Boot ==
    /\ pc = "start"
    /\ pc' = IF envKey THEN "awaitLocations" ELSE "exited"
    /\ UNCHANGED <<world, csvSent, csvRows, LOCS, pending, req, crm, resp>>

\* .on("data", r => csvRows.push({name, slug, apiKey}))
csvRow(r) ==
    [name   |-> trim(r.location),
     slug   |-> hyphenate(trim(toLowerCase(r.location))),
     apiKey |-> trim(r.api_key)]

\* a "data" handler that also enters the row into LOCS when it arrives
CsvDataIntoLocs ==
    /\ pc \notin {"start", "exited"}
    /\ csvSent < Len(csvFile)
    /\ csvSent' = csvSent + 1
    /\ csvRows' = Append(csvRows, csvRow(csvFile[csvSent + 1]))
    /\ LOCS' = Put(LOCS, csvRow(csvFile[csvSent + 1]).slug,
                   [id |-> "L1", apiKey |-> csvRow(csvFile[csvSent + 1]).apiKey, pipelines |-> <<>>])
    /\ UNCHANGED <<world, pc, pending, req, crm, resp>>

CsvData ==
    /\ pc \notin {"start", "exited"}
    /\ csvSent < Len(csvFile)
    /\ csvSent' = csvSent + 1
    /\ csvRows' = Append(csvRows, csvRow(csvFile[csvSent + 1]))
    /\ UNCHANGED <<world, pc, LOCS, pending, req, crm, resp>>

\* ghLocs.find(l => l.name.toLowerCase().includes(row.name.toLowerCase()))
findMatch(ghLocs, row) ==
    LET hits == {i \in 1..Len(ghLocs) :
                    includes(toLowerCase(ghLocs[i].name), toLowerCase(row.name))}
    IN  IF hits = {} THEN Undefined
        ELSE ghLocs[CHOOSE i \in hits : \A j \in hits : i <= j]

\* B) merge CSV keys: for (const row of csvRows) ...
mergeRow(dir, ghLocs, row) ==
    LET match == findMatch(ghLocs, row)
    IN  IF match = Undefined THEN dir
        ELSE Put(dir, row.slug, [id |-> match.id, apiKey |-> row.apiKey, pipelines |-> <<>>])

mergeRows(ghLocs, rows) ==
    LET F[i \in 0..Len(rows)] ==
            IF i = 0 THEN <<>> ELSE mergeRow(F[i-1], ghLocs, rows[i])
    IN  F[Len(rows)]

\* init(): the sub-account list arrives; merge, then ask for every location's pipelines
InitMerge ==
    /\ pc = "awaitLocations"
    /\ agency.ok
    /\ LOCS' = mergeRows(agency.locations, csvRows)
    /\ pending' = Range(Keys(LOCS'))
    /\ pc' = "awaitPipelines"
    /\ UNCHANGED <<world, csvSent, csvRows, req, crm, resp>>

\* init() rejects: .catch(err => process.exit(1))
InitFail ==
    /\ pc = "awaitLocations"
    /\ ~agency.ok
    /\ pc' = "exited"
    /\ UNCHANGED <<world, csvSent, csvRows, LOCS, pending, req, crm, resp>>

\* .filter(p => ["Youth","Adult","Leagues"].includes(p.name)).map(p => ({name: lower, id}))
Whitelist == {"Youth", "Adult", "Leagues"}

IsWhitelisted(p) == p.name \in Whitelist

discovered(list) ==
    LET kept == Filter(list, {p \in Range(list) : IsWhitelisted(p)})
    IN  [i \in 1..Len(kept) |-> [name |-> lowerTag(kept[i].name), id |-> kept[i].id]]

\* C) one location's pipelines lookup answers (ans.ok) or throws
PipelinesAnswer(slug, ans) ==
    /\ pc = "awaitPipelines"
    /\ slug \in pending
    /\ pending' = pending \ {slug}
    /\ LOCS' = IF ans.ok
               THEN Put(LOCS, slug, [OwnVal(LOCS, slug) EXCEPT !.pipelines = discovered(ans.pipelines)])
               ELSE LOCS
    /\ UNCHANGED <<world, csvSent, csvRows, pc, req, crm, resp>>

\* app.listen(PORT) called without waiting for init()
ListenAtOnce ==
    /\ pc \in {"awaitLocations", "awaitPipelines"}
    /\ pc' = "listening"
    /\ UNCHANGED <<world, csvSent, csvRows, LOCS, pending, req, crm, resp>>

\* .then(() => app.listen(PORT))
Listen ==
    /\ pc = "awaitPipelines"
    /\ pending = {}
    /\ pc' = "listening"
    /\ UNCHANGED <<world, csvSent, csvRows, LOCS, pending, req, crm, resp>>

\* ----------------------------------------------- final variant: handlers
\* the CRM requests computeOne issues (0 when it throws before fetching)
requestsOfOne(dir, c, slug) ==
    LET loc == Get(dir, slug)
    IN  IF ~Truthy(loc) \/ loc = Inherited THEN 0
        ELSE SumSeq([i \in 1..Len(loc.pipelines) |-> fetchAll(c.opps[loc.pipelines[i].id]).requests])
             + fetchAll(c.contacts[loc.id]).requests

echo(w) == [startDate |-> IsoDay(w.start), endDate |-> IsoDay(w.end)]

\* a listing that copies the whole directory entry next to its slug
locationsListWhole(dir) ==
    [i \in 1..Len(dir) |-> [slug |-> dir[i].key, id |-> dir[i].val.id, apiKey |-> dir[i].val.apiKey]]

\* app.get("/locations")
locationsList(dir) == [i \in 1..Len(dir) |-> [slug |-> dir[i].key, id |-> dir[i].val.id]]

\* app.get("/stats/:location")
statsOne(dir, c, param, query, now) ==
    LET slug == toLowerCase(param)
        w == dateRange(query, now)
        r == computeOne(dir, c, slug, w.start, w.end)
    IN  IF ~Truthy(Get(dir, slug))
        THEN [route |-> "statsOne", status |-> 404, calls |-> 0]
        ELSE IF r.ok
        THEN [route |-> "statsOne", status |-> 200, calls |-> requestsOfOne(dir, c, slug),
              location |-> slug, dateRange |-> echo(w),
              combined |-> r.combined, pipelines |-> r.pipelines]
        ELSE [route |-> "statsOne", status |-> 500, calls |-> requestsOfOne(dir, c, slug)]

\* (req.query.locations || "all").toLowerCase(), split on ",", trimmed, non-empty, known
AllWord == <<"all">>

(* The locations parameter: absent, or the pieces of its value between    *)
(* commas (the empty string is the one empty piece).                       *)
NoParam == [absent |-> TRUE, items |-> <<>>]

Param(items) == [absent |-> FALSE, items |-> items]

IsNonEmpty(x) == x # <<>>

pickAll(param) ==
    \/ param.absent
    \/ param.items = << <<>> >>
    \/ Len(param.items) = 1 /\ toLowerCase(param.items[1]) = AllWord

wantedOf(dir, param) ==
    LET pieces == [i \in 1..Len(param.items) |-> trim(toLowerCase(param.items[i]))]
        nonEmpty == Filter(pieces, {x \in Range(pieces) : IsNonEmpty(x)})
    IN  IF pickAll(param)
        THEN Keys(dir)
        ELSE Filter(nonEmpty, {x \in Range(nonEmpty) : Truthy(Get(dir, x))})

ByPipelineNames == <<"adult", "youth", "leagues">>

\* addResult with "=" in place of "+=" on combined
addResultLast(acc, r) ==
    [combined   |-> r.combined,
     byPipeline |-> [p \in Range(ByPipelineNames) |->
                        IF HasOwn(r.pipelines, p)
                        THEN [k \in Metrics |-> acc.byPipeline[p][k] + OwnVal(r.pipelines, p)[k]]
                        ELSE acc.byPipeline[p]]]

\* for (const r of results) { combined[k] += r.combined[k]; byPipeline[p][k] += r.pipelines[p][k] }
addResult(acc, r) ==
    [combined   |-> [k \in Metrics |-> acc.combined[k] + r.combined[k]],
     byPipeline |-> [p \in Range(ByPipelineNames) |->
                        IF HasOwn(r.pipelines, p)
                        THEN [k \in Metrics |-> acc.byPipeline[p][k] + OwnVal(r.pipelines, p)[k]]
                        ELSE acc.byPipeline[p]]]

foldResults(results) ==
    LET F[i \in 0..Len(results)] ==
            IF i = 0 THEN [combined |-> Zero, byPipeline |-> [p \in Range(ByPipelineNames) |-> Zero]]
            ELSE addResult(F[i-1], results[i])
    IN  F[Len(results)]

\* Object.fromEntries(results.map(r => [r.location, r]))
fromEntries(results) ==
    LET F[i \in 0..Len(results)] ==
            IF i = 0 THEN <<>>
            ELSE Put(F[i-1], results[i].location,
                     [combined |-> results[i].combined, pipelines |-> results[i].pipelines])
    IN  F[Len(results)]

\* app.get("/stats")
statsMany(dir, c, param, query, now) ==
    LET w == dateRange(query, now)
        wanted == wantedOf(dir, param)
        results == [i \in 1..Len(wanted) |-> computeOne(dir, c, wanted[i], w.start, w.end)]
        calls == SumSeq([i \in 1..Len(wanted) |-> requestsOfOne(dir, c, wanted[i])])
        sums == foldResults(results)
    IN  IF wanted = <<>>
        THEN [route |-> "statsMany", status |-> 400, calls |-> 0]
        ELSE IF \A i \in 1..Len(results) : results[i].ok
        THEN [route |-> "statsMany", status |-> 200, calls |-> calls,
              selection |-> wanted, dateRange |-> echo(w),
              combined |-> sums.combined, byPipeline |-> sums.byPipeline,
              byLocation |-> fromEntries(results)]
        ELSE [route |-> "statsMany", status |-> 500, calls |-> calls]

(* The handlers keep nothing between requests: when a response has been   *)
(* sent, nothing of the request remains in the process.  One request is    *)
(* followed at a time; Idle holds between two of them.                     *)
Idle == req = NoReq

EndRequest ==
    /\ ~Idle
    /\ resp # NoResp
    /\ req' = NoReq
    /\ crm' = NoCrm
    /\ resp' = NoResp
    /\ UNCHANGED <<world, csvSent, csvRows, pc, LOCS, pending>>

GetLocations ==
    /\ pc = "listening"
    /\ Idle
    /\ req' = [route |-> "locations"]
    /\ crm' = NoCrm
    /\ resp' = [route |-> "locations", status |-> 200, calls |-> 0, body |-> locationsList(LOCS)]
    /\ UNCHANGED <<world, csvSent, csvRows, pc, LOCS, pending>>

GetStatsOne(param, query, now, c) ==
    /\ pc = "listening"
    /\ Idle
    /\ req' = [route |-> "statsOne", location |-> param, query |-> query, now |-> now]
    /\ crm' = c
    /\ resp' = statsOne(LOCS, c, param, query, now)
    /\ UNCHANGED <<world, csvSent, csvRows, pc, LOCS, pending>>

GetStatsMany(param, query, now, c) ==
    /\ pc = "listening"
    /\ Idle
    /\ req' = [route |-> "statsMany", locations |-> param, query |-> query, now |-> now]
    /\ crm' = c
    /\ resp' = statsMany(LOCS, c, param, query, now)
    /\ UNCHANGED <<world, csvSent, csvRows, pc, LOCS, pending>>

\* ================================================================ inputs
Day(d) == d * DayMs

LocIds == {"L1", "L2"}

PipeIds == LocIds \X (1..MaxPipes)

\* a contact updated after every window of the model, and an opportunity in no lead stage
plainContact == [dateUpdated |-> DateOf(Day(9)), tags |-> <<"won", "youth">>]

plainOpp == [stageName |-> "Appointment"]

leadOpp == [stageName |-> "Lead"]

FullPage(x) == [i \in 1..perPage |-> x]

EmptyEp == Endpoint(<<>>, 0)

FailingEp == Endpoint(<<>>, 1)

OppEps ==
    { EmptyEp, FailingEp,
      Endpoint(<<leadOpp, plainOpp, [stageName |-> "New Leads"]>>, 0),
      Endpoint(FullPage(plainOpp) \o <<leadOpp>>, 0),
      Endpoint(FullPage(leadOpp) \o <<leadOpp>>, 2) }

SampleTimes == {Day(5) - 1, Day(5), Day(6) + EndOfDay, Day(7), Day(9)}

SampleTags ==
    { <<"show", "no-show", "Adult", "youth">>,
      <<"appointment", "cold">>, <<"Won", "leagues", "youth">> }

SampleContacts ==
    {[dateUpdated |-> DateOf(t), tags |-> g] : t \in SampleTimes, g \in SampleTags}
    \cup {[dateUpdated |-> NoDate, tags |-> <<"won", "youth">>],
          [dateUpdated |-> BadDate, tags |-> <<"show", "adult">>]}

wonYouth == [dateUpdated |-> DateOf(Day(6)), tags |-> <<"won", "youth">>]

\* two wins: in the last millisecond of a day, and in the first of the next
lastMs == [dateUpdated |-> DateOf(Day(6) + EndOfDay), tags |-> <<"won">>]

nextDay == [dateUpdated |-> DateOf(Day(7)), tags |-> <<"won">>]

ContactEps ==
    {Endpoint(<<c>>, 0) : c \in SampleContacts}
    \cup { EmptyEp, FailingEp,
           Endpoint(<<wonYouth, wonYouth>>, 0),
           Endpoint(<<lastMs, nextDay>>, 0),
           Endpoint(FullPage(plainContact), 0),
           Endpoint(FullPage(plainContact) \o <<wonYouth>>, 0),
           Endpoint(FullPage(plainContact) \o FullPage(plainContact) \o <<wonYouth>>, 0),
           Endpoint(FullPage(plainContact) \o <<wonYouth>>, 2) }

FewContactEps == {EmptyEp, FailingEp, Endpoint(<<wonYouth>>, 0)}

BaseCrm == [opps |-> [p \in PipeIds |-> EmptyEp], contacts |-> [l \in LocIds |-> EmptyEp]]

\* the CRM with one location's endpoints set: its pipelines' opportunities and its contacts
CrmWith(base, l, oppEps, cEp) ==
    [opps     |-> [p \in PipeIds |-> IF p[1] = l THEN oppEps[p[2]] ELSE base.opps[p]],
     contacts |-> [base.contacts EXCEPT ![l] = cEp]]

\* every pipeline answers alike, or only the first one fails
OppChoices ==
    {[i \in 1..MaxPipes |-> o] : o \in OppEps}
    \cup {[i \in 1..MaxPipes |-> IF i = 1 THEN FailingEp ELSE Endpoint(<<leadOpp>>, 0)]}

CrmsOf(l) ==
    {CrmWith(BaseCrm, l, o, c) : o \in OppChoices, c \in FewContactEps}
    \cup {CrmWith(BaseCrm, l, [i \in 1..MaxPipes |-> EmptyEp], c) : c \in ContactEps}

Queries ==
    { [startDate |-> NoDate, endDate |-> NoDate],
      [startDate |-> DateOf(Day(5)), endDate |-> DateOf(Day(6))],
      [startDate |-> DateOf(Day(6)), endDate |-> DateOf(Day(6))],
      [startDate |-> DateOf(Day(5)), endDate |-> BadDate],
      [startDate |-> BadDate, endDate |-> DateOf(Day(6))],
      [startDate |-> DateOf(Day(5)), endDate |-> NoDate],
      [startDate |-> EmptyDate, endDate |-> DateOf(Day(6))],
      [startDate |-> DateOf(Day(7)), endDate |-> DateOf(Day(5))],
      [startDate |-> DateOf(Day(5)), endDate |-> DateOf(Day(6) + DayMs \div 2)] }

ManyQueries ==
    { [startDate |-> NoDate, endDate |-> NoDate],
      [startDate |-> DateOf(Day(5)), endDate |-> DateOf(Day(6))] }

\* Date.now() of a request (late enough for now - 30 days to stay within 32 bits)
Nows == {Day(8) + 5000}

\* what GET /v1/pipelines/ answers for a location: it throws, or lists [name, id]
PipelineNameLists(l) ==
    IF l = "L1"
    THEN { <<"Youth", "Adult">>, <<"Youth", "Youth">>, <<"Other">>,
           <<"Youth", "Adult", "Leagues">> }
    ELSE { <<"Youth">> }

PipelineAnswers(l) ==
    {[ok |-> FALSE, pipelines |-> <<>>]}
    \cup {[ok |-> TRUE, pipelines |-> [i \in 1..Len(n) |-> [name |-> n[i], id |-> <<l, i>>]]] :
            n \in {m \in PipelineNameLists(l) : Len(m) <= MaxPipes}}

rowA == [location |-> <<"A">>, api_key |-> <<"k">>]

rowB == [location |-> <<" ", "b">>, api_key |-> <<"j", " ">>]

subA == [name |-> <<"S", "-", "a">>, id |-> "L1"]

subB == [name |-> <<"B">>, id |-> "L2"]

SlugParams == { <<"a">>, <<"A">>, <<"b">>, <<"z">>, <<"constructor">> }

ManyParams ==
    { NoParam, Param(<< <<"all">> >>), Param(<< <<>> >>),
      Param(<< <<"a">>, <<"b">> >>), Param(<< <<"b">>, <<" ", "A">> >>),
      Param(<< <<"a">>, <<"z">> >>), Param(<< <<"z">>, <<>> >>),
      Param(<< <<"a">>, <<"a">> >>), Param(<< <<"a">>, <<"constructor">> >>) }

FewOppEps == {FailingEp, Endpoint(<<leadOpp>>, 0)}

FewerContactEps == {EmptyEp, Endpoint(<<wonYouth>>, 0)}

OneLocCrms(base, l) ==
    {CrmWith(base, l, [i \in 1..MaxPipes |-> o], c) : o \in FewOppEps, c \in FewerContactEps}

ManyCrms == UNION {OneLocCrms(b, "L2") : b \in OneLocCrms(BaseCrm, "L1")}

\* ============================================== locationsCache variant
\* l.name.replace(/^Shoot 360\s*-\s*/, "")
BrandPrefix == <<"S", "h", "o", "o", "t", " ", "3", "6", "0">>

stripBrand(name) ==
    LET n == Len(BrandPrefix)
        rest == trimLeft(SubSeq(name, n + 1, Len(name)))
    IN  IF Len(name) >= n /\ SubSeq(name, 1, n) = BrandPrefix /\ rest # <<>> /\ rest[1] = "-"
        THEN trimLeft(Tail(rest))
        ELSE name

\* apiKey: null
NullKey == <<>>

\* A) locationsCache = (locData.locations || []).map(l => ({id, name, slug, apiKey: null, pipelines: []}))
cacheEntry(l) ==
    [id |-> l.id, name |-> l.name,
     slug |-> hyphenate(toLowerCase(stripBrand(l.name))),
     apiKey |-> NullKey, pipelines |-> <<>>]

\* locationsCache.find(x => x.slug === slug), as an index (0: undefined)
findSlug(cache, slug) ==
    LET hits == {i \in 1..Len(cache) : cache[i].slug = slug}
    IN  IF hits = {} THEN 0 ELSE CHOOSE i \in hits : \A j \in hits : i <= j

CacheBoot ==
    /\ pc = "start"
    /\ pc' = IF envKey THEN "awaitLocations" ELSE "exited"
    /\ UNCHANGED <<cacheWorld, csvSent, pending, req, crm, resp, locationsCache, fan>>

CacheList ==
    /\ pc = "awaitLocations"
    /\ agency.ok
    /\ locationsCache' = [i \in 1..Len(agency.locations) |-> cacheEntry(agency.locations[i])]
    /\ pc' = "readCsv"
    /\ UNCHANGED <<cacheWorld, csvSent, pending, req, crm, resp, fan>>

\* initialize() rejects: .catch(err => process.exit(1))
CacheListFail ==
    /\ pc = "awaitLocations"
    /\ ~agency.ok
    /\ pc' = "exited"
    /\ UNCHANGED <<cacheWorld, csvSent, pending, req, crm, resp, locationsCache, fan>>

\* B) .on("data", row => { loc = find(slug); if (loc) loc.apiKey = row.api_key.trim() })
CacheCsvData ==
    /\ pc = "readCsv"
    /\ csvSent < Len(csvFile)
    /\ csvSent' = csvSent + 1
    /\ LET row == csvFile[csvSent + 1]
           i == findSlug(locationsCache, trim(toLowerCase(row.location)))
       IN  locationsCache' =
               IF i = 0 THEN locationsCache
               ELSE [locationsCache EXCEPT ![i].apiKey = trim(row.api_key)]
    /\ UNCHANGED <<cacheWorld, pc, pending, req, crm, resp, fan>>

\* .on("end", resolve), then C) starts: one lookup per location that has a key
CacheCsvEnd ==
    /\ pc = "readCsv"
    /\ csvSent = Len(csvFile)
    /\ pending' = {i \in 1..Len(locationsCache) : locationsCache[i].apiKey # NullKey}
    /\ pc' = "awaitPipelines"
    /\ UNCHANGED <<cacheWorld, csvSent, req, crm, resp, locationsCache, fan>>

\* C) one location's pipelines lookup answers (ans.ok) or throws
CachePipelinesAnswer(i, ans) ==
    /\ pc = "awaitPipelines"
    /\ i \in pending
    /\ pending' = pending \ {i}
    /\ locationsCache' =
           [locationsCache EXCEPT ![i].pipelines =
                IF ans.ok THEN discovered(ans.pipelines) ELSE <<>>]
    /\ UNCHANGED <<cacheWorld, csvSent, pc, req, crm, resp, fan>>

CacheListen ==
    /\ pc = "awaitPipelines"
    /\ pending = {}
    /\ pc' = "listening"
    /\ UNCHANGED <<cacheWorld, csvSent, pending, req, crm, resp, locationsCache, fan>>

\* axios.get without pagination: the list, or a throw
getOnce(ep) == [ok |-> ep.failAt # 1, data |-> ep.items]

\* t >= start && t <= end for t = Date.parse(d): false when t is NaN
within(d, w) ==
    LET t == DateParse(d)
    IN  ~isNaN(t) /\ t.v >= w.start /\ t.v <= w.end

\* a.status?.toLowerCase()
lowerStatus(st) ==
    CASE st = "Show" -> "show" [] st = "No Show" -> "no show" [] OTHER -> st

\* A) leads via contacts, B) appointments, shows, noShows via appointments
countLeads(c, w) ==
    LET r == getOnce(c.contacts)
    IN  IF r.ok THEN Len(Filter(r.data, {x \in Range(r.data) : within(x.dateCreated, w)})) ELSE 0

countAppointments(c, w) ==
    LET r == getOnce(c.appointments)
        filtered == Filter(r.data, {a \in Range(r.data) : within(a.startTime, w)})
        HasStatus(st) == Filter(filtered, {a \in Range(filtered) : lowerStatus(a.status) = st})
    IN  IF r.ok
        THEN [appointments |-> Len(filtered), shows |-> Len(HasStatus("show")),
              noShows |-> Len(HasStatus("no show"))]
        ELSE [appointments |-> 0, shows |-> 0, noShows |-> 0]

\* opps.filter(o => o.tags?.includes(tag)).length
countTag(opps, tag) == Cardinality({i \in 1..Len(opps) : tag \in Range(opps[i].tags)})

oppCounts(opps) ==
    [total |-> Len(opps), wins |-> countTag(opps, "won"), cold |-> countTag(opps, "cold")]

ErrorMarker == [error |-> TRUE]

\* app.get("/locations")
cacheList(cache) ==
    [i \in 1..Len(cache) |-> [id |-> cache[i].id, name |-> cache[i].name, slug |-> cache[i].slug]]

GetCacheLocations ==
    /\ pc = "listening"
    /\ Idle
    /\ req' = [route |-> "cacheLocations"]
    /\ resp' = [route |-> "cacheLocations", status |-> 200, body |-> cacheList(locationsCache)]
    /\ UNCHANGED <<cacheWorld, csvSent, pc, pending, crm, locationsCache, fan>>

\* combined = {leads, appointments, shows, noShows, wins: 0, cold: 0}; pipelinesOut = {}
fanStart(loc, c, w) ==
    LET a == countAppointments(c, w)
    IN  [pending |-> 1..Len(loc.pipelines), loc |-> loc, window |-> w,
         out |-> <<>>,
         combined |-> [leads |-> countLeads(c, w),
                       appointments |-> a.appointments, shows |-> a.shows,
                       noShows |-> a.noShows, wins |-> 0, cold |-> 0]]

\* the accumulators after the callback of pipeline i has run to its end
oppsSettled(f, i, c) ==
    LET p == f.loc.pipelines[i]
        r == getOnce(c.opps[p.id])
        n == oppCounts(r.data)
    IN  IF r.ok
        THEN [f EXCEPT !.pending = @ \ {i},
                       !.out = Put(@, p.name, n),
                       !.combined.wins = @ + n.wins,
                       !.combined.cold = @ + n.cold]
        ELSE [f EXCEPT !.pending = @ \ {i},
                       !.out = Put(@, p.name, ErrorMarker)]

\* app.get("/stats/:location") up to the start of the pipeline fan-out
GetCacheStats(param, query, now, c) ==
    /\ pc = "listening"
    /\ Idle
    /\ req' = [route |-> "cacheStats", location |-> param, query |-> query, now |-> now]
    /\ crm' = c
    /\ LET i == findSlug(locationsCache, toLowerCase(param))
           loc == locationsCache[i]
           w == dateRange(query, now)
           a == countAppointments(c, w)
       IN  IF i = 0
           THEN resp' = [route |-> "cacheStats", status |-> 404] /\ fan' = NoFan
           ELSE IF loc.apiKey = NullKey
           THEN resp' = [route |-> "cacheStats", status |-> 500] /\ fan' = NoFan
           ELSE /\ resp' = NoResp
                /\ fan' = fanStart(loc, c, w)
    /\ UNCHANGED <<cacheWorld, csvSent, pc, pending, locationsCache>>

\* one callback of Promise.all(loc.pipelines.map(async p => ...)) runs to its end
OppsDone(i) ==
    /\ req.route = "cacheStats"
    /\ i \in fan.pending
    /\ fan' = oppsSettled(fan, i, crm)
    /\ UNCHANGED <<cacheWorld, csvSent, pc, pending, req, crm, resp, locationsCache>>

\* return res.json({location, dateRange, combined, pipelines: pipelinesOut})
CacheRespond ==
    /\ req.route = "cacheStats"
    /\ resp = NoResp
    /\ fan.pending = {}
    /\ resp' = [route |-> "cacheStats", status |-> 200, location |-> fan.loc.name,
                dateRange |-> echo(fan.window), combined |-> fan.combined,
                pipelines |-> fan.out]
    /\ fan' = NoFan
    /\ UNCHANGED <<cacheWorld, csvSent, pc, pending, req, crm, locationsCache>>

\* ------------------------------------- locationsCache variant: inputs
brandA == <<"S", "h", "o", "o", "t", " ", "3", "6", "0", " ", "-", " ", "A">>

CacheNames == { brandA, <<"A">>, <<"B">> }

\* what GET /v1/locations answers: it throws, or lists sub-accounts (ids by position)
CacheAgencies ==
    {[ok |-> FALSE, locations |-> <<>>]}
    \cup {[ok |-> TRUE, locations |-> [i \in 1..Len(n) |-> [name |-> n[i], id |-> i]]] :
            n \in {m \in SeqsUpTo(CacheNames, MaxSubs) : m # <<>> /\ m[1] # <<"B">>}}

CsvFiles == { <<rowA, rowB>>, <<rowB>> }

CachePipelineAnswers(l) ==
    {[ok |-> FALSE, pipelines |-> <<>>]}
    \cup {[ok |-> TRUE, pipelines |-> [i \in 1..Len(n) |-> [name |-> n[i], id |-> <<l, i>>]]] :
            n \in {m \in IF l = 1 THEN { <<"Youth">>, <<"Youth", "Adult">>, <<"Youth", "Youth">>,
                                          <<"Other", "Adult">>, <<"Youth", "Adult", "Leagues">> }
                                  ELSE { <<"Leagues">> } : Len(m) <= MaxPipes}}

CachePipeIds == (1..MaxSubs) \X (1..MaxPipes)

wonOpp == [tags |-> <<"won">>]

OppLists == { <<wonOpp>>, <<wonOpp, [tags |-> <<"cold", "won">>], [tags |-> <<>>], [tags |-> <<"Won">>]>> }

CacheOppEps == {FailingEp} \cup {Endpoint(o, 0) : o \in OppLists}

SampleCreated == <<[dateCreated |-> DateOf(Day(5))], [dateCreated |-> DateOf(Day(9))],
                   [dateCreated |-> NoDate]>>

SampleAppointments ==
    << [startTime |-> DateOf(Day(6)), status |-> "Show"],
       [startTime |-> DateOf(Day(6) + EndOfDay), status |-> "no show"],
       [startTime |-> DateOf(Day(5)), status |-> "none"],
       [startTime |-> BadDate, status |-> "show"],
       [startTime |-> DateOf(Day(7)), status |-> "show"] >>

\* the CRM as a request for sub-account l sees it
CacheCrm(l, cEp, aEp, oppEps) ==
    [contacts |-> cEp, appointments |-> aEp,
     opps |-> [p \in CachePipeIds |-> IF p[1] = l THEN oppEps[p[2]] ELSE EmptyEp]]

CacheCrmsOf(l) ==
    {CacheCrm(l, Endpoint(SampleCreated, 0), Endpoint(SampleAppointments, 0), o) :
        o \in [1..MaxPipes -> CacheOppEps]}
    \cup {CacheCrm(l, c, a, [i \in 1..MaxPipes |-> EmptyEp]) :
            c \in {FailingEp, EmptyEp}, a \in {FailingEp, EmptyEp}}

CacheParams == { <<"a">>, <<"A">>, <<"b">>, <<"z">> }

CacheCrmChoices(param) ==
    LET i == findSlug(locationsCache, toLowerCase(param))
    IN  IF i = 0 THEN {CacheCrm(1, EmptyEp, EmptyEp, [j \in 1..MaxPipes |-> EmptyEp])}
        ELSE CacheCrmsOf(locationsCache[i].id)

\* ============================================== required-dates variant
(* A CSV row is [location, label, api_key, calendars]; calendars lists the  *)
(* row's *_calendar_id columns as [name, id], name being the column name    *)
(* without its suffix, id the cell (empty when the cell is).                *)
rowCalendars(row) ==
    LET filled == Filter(row.calendars, {x \in Range(row.calendars) : x.id # <<>>})
    IN  [i \in 1..Len(filled) |-> [name |-> filled[i].name, id |-> trim(filled[i].id)]]

\* .on("data", row => { if (a required field is missing) return; locations.push({...}) })
CsvLoadData ==
    /\ pc = "start"
    /\ csvSent < Len(csvFile)
    /\ csvSent' = csvSent + 1
    /\ LET row == csvFile[csvSent + 1]
       IN  locations' =
               IF row.location = <<>> \/ row.label = <<>> \/ row.api_key = <<>>
               THEN locations
               ELSE Append(locations,
                           [slug |-> trim(toLowerCase(row.location)), label |-> trim(row.label),
                            apiKey |-> trim(row.api_key), calendars |-> rowCalendars(row)])
    /\ UNCHANGED <<csvWorld, pc, req, crm, resp, fan>>

\* .on("end", resolve) and .then(() => app.listen(PORT))
CsvLoadEnd ==
    /\ pc = "start"
    /\ csvSent = Len(csvFile)
    /\ pc' = "listening"
    /\ UNCHANGED <<csvWorld, csvSent, req, crm, resp, fan, locations>>

\* .on("error", reject): the failure is logged and the server never listens
CsvLoadError ==
    /\ pc = "start"
    /\ pc' = "failed"
    /\ UNCHANGED <<csvWorld, csvSent, req, crm, resp, fan, locations>>

\* locations.find(l => l.slug === slug), as an index (0: undefined)
findLocation(list, slug) ==
    LET hits == {i \in 1..Len(list) : list[i].slug = slug}
    IN  IF hits = {} THEN 0 ELSE CHOOSE i \in hits : \A j \in hits : i <= j

\* app.get("/locations")
csvList(list) == [i \in 1..Len(list) |-> [slug |-> list[i].slug, label |-> list[i].label]]

GetCsvLocations ==
    /\ pc = "listening"
    /\ Idle
    /\ req' = [route |-> "csvLocations"]
    /\ resp' = [route |-> "csvLocations", status |-> 200, calls |-> 0, body |-> csvList(locations)]
    /\ UNCHANGED <<csvWorld, csvSent, pc, crm, fan, locations>>

\* Array.isArray(contactsRes.data.contacts) ? contactsRes.data.contacts.length : 0
leadsOf(answer) == IF answer.isArray THEN Len(answer.contacts) ELSE 0

\* app.get("/stats/:location") up to the start of the calendar fan-out
GetCsvStats(param, query, c) ==
    /\ pc = "listening"
    /\ Idle
    /\ req' = [route |-> "csvStats", location |-> param, query |-> query]
    /\ crm' = c
    /\ LET i == findLocation(locations, toLowerCase(param))
       IN  IF ~Given(query.startDate) \/ ~Given(query.endDate)
           THEN resp' = [route |-> "csvStats", status |-> 400, calls |-> 0] /\ fan' = NoFan
           ELSE IF i = 0
           THEN resp' = [route |-> "csvStats", status |-> 404, calls |-> 0] /\ fan' = NoFan
           ELSE IF ~c.contacts.ok
           THEN resp' = [route |-> "csvStats", status |-> 500, calls |-> 1] /\ fan' = NoFan
           ELSE /\ resp' = NoResp
                /\ fan' = [pending |-> 1..Len(locations[i].calendars), loc |-> locations[i],
                           out |-> <<>>,
                           combined |-> [leads |-> leadsOf(c.contacts), appointments |-> 0,
                                         shows |-> 0, noShows |-> 0]]
    /\ UNCHANGED <<csvWorld, csvSent, pc, locations>>

\* stats[k] || 0
orZero(stats, k) == IF k \in DOMAIN stats THEN stats[k] ELSE 0

\* one callback of Promise.all(loc.calendars.map(async cal => ...)) runs to its end
CalendarDone(i) ==
    /\ req.route = "csvStats"
    /\ i \in fan.pending
    /\ LET cal == fan.loc.calendars[i]
           r == crm.stats[cal.id]
       IN  fan' = IF r.ok
                  THEN [fan EXCEPT !.pending = @ \ {i},
                                   !.out = Put(@, cal.name, r.data),
                                   !.combined.appointments = @ + orZero(r.data, "appointments"),
                                   !.combined.shows = @ + orZero(r.data, "shows"),
                                   !.combined.noShows = @ + orZero(r.data, "noShows")]
                  ELSE [fan EXCEPT !.pending = @ \ {i},
                                   !.out = Put(@, cal.name, ErrorMarker)]
    /\ UNCHANGED <<csvWorld, csvSent, pc, req, crm, resp, locations>>

\* res.json({location: loc.label, combined, calendars})
CsvRespond ==
    /\ req.route = "csvStats"
    /\ resp = NoResp
    /\ fan.pending = {}
    /\ resp' = [route |-> "csvStats", status |-> 200, calls |-> 1 + Len(fan.loc.calendars),
                location |-> fan.loc.label, combined |-> fan.combined, calendars |-> fan.out]
    /\ fan' = NoFan
    /\ UNCHANGED <<csvWorld, csvSent, pc, req, crm, locations>>

\* ------------------------------------- required-dates variant: inputs
\* rows of secrets/api_keys.csv the file may hold
MaxRows == 2

calC == <<"c">>

calD == <<"d">>

fullRowA ==
    [location |-> <<"A">>, label |-> <<"A">>, api_key |-> <<"k">>,
     calendars |-> <<[name |-> "youth", id |-> calC], [name |-> "adult", id |-> <<"d", " ">>]>>]

fullRowB ==
    [location |-> <<" ", "b">>, label |-> <<"B">>, api_key |-> <<"j">>,
     calendars |-> <<[name |-> "youth", id |-> <<>>]>>]

keylessRow == [location |-> <<"z">>, label |-> <<"Z">>, api_key |-> <<>>, calendars |-> <<>>]

FullCsvFiles == SeqsUpTo({fullRowA, fullRowB, keylessRow}, MaxRows)

StatsAnswers ==
    { [ok |-> FALSE, data |-> [error |-> TRUE]],
      [ok |-> TRUE, data |-> [appointments |-> 2, shows |-> 1, noShows |-> 1]],
      [ok |-> TRUE, data |-> [appointments |-> 1]] }

ContactsAnswers ==
    { [ok |-> FALSE, isArray |-> FALSE, contacts |-> <<>>],
      [ok |-> TRUE, isArray |-> TRUE, contacts |-> <<1, 2>>],
      [ok |-> TRUE, isArray |-> FALSE, contacts |-> <<>>] }

CsvCrms == {[contacts |-> c, stats |-> st] : c \in ContactsAnswers, st \in [{calC, calD} -> StatsAnswers]}

CsvParams == { <<"a">>, <<"A">>, <<"b">>, <<"z">> }

\* ====================================================== hybrid variant
(* Start-up reads the CSV, lists the sub-accounts and merges as the final  *)
(* variant does (Boot, CsvData, InitMerge, InitFail, Listen); LOCS holds   *)
(* its "locations" object, whose pipelines are [name, id, stageIds].       *)

\* (d.data.pipeline.stages || []).forEach(s => pi.stageIds[lower-hyphenated s.name] = s.id)
stageIdsOf(stages) ==
    LET F[i \in 0..Len(stages)] ==
            IF i = 0 THEN <<>>
            ELSE Put(F[i-1], hyphenate(toLowerCase(stages[i].name)), stages[i].id)
    IN  F[Len(stages)]

\* pi = {name: lower, id, stageIds: {}}, filled unless the stages lookup throws
stagedPipeline(p, answer) ==
    [name |-> lowerTag(p.name), id |-> p.id,
     stageIds |-> IF answer.ok THEN stageIdsOf(answer.stages) ELSE <<>>]

\* for (const p of pipes.filter(whitelisted)) { ...; loc.pipelines.push(pi) }
stagedPipelines(pipes, stagesOf) ==
    LET kept == Filter(pipes, {p \in Range(pipes) : IsWhitelisted(p)})
    IN  [i \in 1..Len(kept) |-> stagedPipeline(kept[i], stagesOf[kept[i].id])]

\* C) one location: pipelines list (pipes = [] when it throws), then each pipeline's stages
StagesAnswer(slug, ans, stagesOf) ==
    /\ pc = "awaitPipelines"
    /\ slug \in pending
    /\ pending' = pending \ {slug}
    /\ LOCS' = Put(LOCS, slug,
                   [OwnVal(LOCS, slug) EXCEPT
                       !.pipelines = stagedPipelines(IF ans.ok THEN ans.pipelines ELSE <<>>, stagesOf)])
    /\ UNCHANGED <<world, csvSent, csvRows, pc, req, crm, resp>>

\* app.get("/locations"): Object.keys(locations)
GetHybridLocations ==
    /\ pc = "listening"
    /\ Idle
    /\ req' = [route |-> "locations"]
    /\ crm' = NoCrm
    /\ resp' = [route |-> "locations", status |-> 200, body |-> Keys(LOCS)]
    /\ UNCHANGED <<world, csvSent, csvRows, pc, LOCS, pending>>

\* params of GET /v1/pipelines/:id/opportunities
oppParams(loc, start, end) == [locationId |-> loc.id, startDate |-> start, endDate |-> end]

(* The CRM's answer to that request: ep.ok, and the pipeline's              *)
(* opportunities, those created within [startDate, endDate] when the CRM   *)
(* applies the two parameters (ep.dated).                                   *)
oppsAnswer(ep, params) ==
    IF ep.dated
    THEN Filter(ep.items, {o \in Range(ep.items) :
                              o.created >= params.startDate /\ o.created <= params.endDate})
    ELSE ep.items

LeadKey == <<"l", "e", "a", "d">>

\* A) one pass of "for (const p of loc.pipelines)"
hybridLeadsStep(acc, loc, p, c, start, end) ==
    LET ep == c.opps[p.id]
        opps == IF ep.ok THEN oppsAnswer(ep, oppParams(loc, start, end)) ELSE <<>>
        lead == Get(p.stageIds, LeadKey)
        leadCount == Len(Filter(opps, {o \in Range(opps) : o.stageId = lead}))
    IN  [combined |-> [acc.combined EXCEPT !.leads = @ + leadCount],
         byPipe   |-> Put(acc.byPipe, p.name, [Zero EXCEPT !.leads = leadCount])]

hybridLeadsLoop(loc, c, start, end) ==
    LET F[i \in 0..Len(loc.pipelines)] ==
            IF i = 0 THEN [combined |-> Zero, byPipe |-> <<>>]
            ELSE hybridLeadsStep(F[i-1], loc, loc.pipelines[i], c, start, end)
    IN  F[Len(loc.pipelines)]

\* if (updated < start || updated > end) continue;
hybridInWindow(c, start, end) ==
    LET updated == DateParse(c.dateUpdated)
    IN  ~(lt(updated, start) \/ gt(updated, end))

hybridContactsLoop(acc, contacts, pipelines, start, end) ==
    LET counted == Filter(contacts, {c \in Range(contacts) : hybridInWindow(c, start, end)})
        F[i \in 0..Len(counted)] ==
            IF i = 0 THEN acc ELSE foldContact(F[i-1], counted[i], pipelines)
    IN  F[Len(counted)]

\* app.get("/stats/:location") of the hybrid variant
hybridStats(dir, c, param, query, now) ==
    LET slug == toLowerCase(param)
        loc == Get(dir, slug)
        w == dateRange(query, now)
        contacts == fetchAll(c.contacts[loc.id])
        a == hybridLeadsLoop(loc, c, w.start, w.end)
        b == hybridContactsLoop(a, contacts.all, loc.pipelines, w.start, w.end)
    IN  IF ~Truthy(loc)
        THEN [route |-> "hybridStats", status |-> 404]
        ELSE IF loc = Inherited                 \* loc.pipelines is not iterable: the handler rejects
        THEN [route |-> "hybridStats", status |-> 0, rejected |-> TRUE]
        ELSE IF ~contacts.ok
        THEN [route |-> "hybridStats", status |-> 500]
        ELSE [route |-> "hybridStats", status |-> 200,
              location |-> slug, dateRange |-> echo(w),
              combined |-> b.combined, pipelines |-> b.byPipe]

GetHybridStats(param, query, now, c) ==
    /\ pc = "listening"
    /\ Idle
    /\ req' = [route |-> "hybridStats", location |-> param, query |-> query, now |-> now]
    /\ crm' = c
    /\ resp' = hybridStats(LOCS, c, param, query, now)
    /\ UNCHANGED <<world, csvSent, csvRows, pc, LOCS, pending>>

\* ------------------------------------------------ hybrid variant: inputs
StageId(n) == [stage |-> n]

leadStage == [name |-> <<"L", "e", "a", "d">>, id |-> StageId(1)]

wonStage == [name |-> <<"W", "o", "n">>, id |-> StageId(2)]

newLeadStage == [name |-> <<"N", "e", "w", " ", "L", "e", "a", "d">>, id |-> StageId(3)]

\* what GET /v1/pipelines/:id answers: it throws, or lists the stages
StageAnswers ==
    { [ok |-> FALSE, stages |-> <<>>],
      [ok |-> TRUE, stages |-> <<leadStage, wonStage>>],
      [ok |-> TRUE, stages |-> <<newLeadStage, wonStage>>] }

StagesChoices == {[p \in PipeIds |-> s] : s \in StageAnswers}

HybridPipelineAnswers(l) ==
    {[ok |-> FALSE, pipelines |-> <<>>]}
    \cup {[ok |-> TRUE, pipelines |-> [i \in 1..Len(n) |-> [name |-> n[i], id |-> <<l, i>>]]] :
            n \in {<<"Youth", "Adult">>, <<"Other", "Youth">>}}

\* opportunities of a pipeline: stage, creation time
Opp(stage, created) == [stageId |-> stage, created |-> created]

HybridOppItems ==
    { <<>>,
      <<Opp(StageId(1), Day(5)), Opp(StageId(1), Day(7)), Opp(StageId(2), Day(5))>>,
      <<Opp(Undefined, Day(5)), Opp(StageId(1), Day(2))>> }

HybridOppEps ==
    {[ok |-> FALSE, dated |-> FALSE, items |-> <<>>]}
    \cup {[ok |-> TRUE, dated |-> d, items |-> i] : d \in BOOLEAN, i \in HybridOppItems}

HybridContactEps ==
    { EmptyEp, FailingEp,
      Endpoint(<<lastMs, nextDay>>, 0),
      Endpoint(<<[dateUpdated |-> NoDate, tags |-> <<"won", "youth">>]>>, 0),
      Endpoint(<<[dateUpdated |-> BadDate, tags |-> <<"show", "adult">>], wonYouth>>, 0),
      Endpoint(FullPage(plainContact) \o <<wonYouth>>, 0),
      Endpoint(FullPage(plainContact) \o <<wonYouth>>, 2) }

HybridCrms ==
    {[opps |-> [p \in PipeIds |-> o], contacts |-> [l \in LocIds |-> c]] :
        o \in HybridOppEps, c \in HybridContactEps}

\* ================================================== stage-based variant
(* Start-up is the hybrid variant's (StagesAnswer); the handler tallies    *)
(* every opportunity of a pipeline by the stage it sits in.                *)

\* the keys of p.stageIds the tally reads, with the metric each one feeds
StageKeys ==
    << [key |-> <<"l", "e", "a", "d">>, metric |-> "leads"],
       [key |-> <<"a", "p", "p", "o", "i", "n", "t", "m", "e", "n", "t">>, metric |-> "appointments"],
       [key |-> <<"n", "o", "-", "s", "h", "o", "w">>, metric |-> "noShows"],
       [key |-> <<"s", "h", "o", "w">>, metric |-> "shows"],
       [key |-> <<"c", "o", "l", "d">>, metric |-> "cold"] >>

\* the stage metrics one opportunity increments: if (sid === p.stageIds[key]) ...
stageHits(p, o) ==
    {StageKeys[i].metric : i \in {j \in 1..Len(StageKeys) :
                                    o.stageId = Get(p.stageIds, StageKeys[j].key)}}

\* o.tags?.includes("won")
oppIsWon(o) == "tags" \in DOMAIN o /\ "won" \in Range(o.tags)

\* the metrics one opportunity increments, in its bucket and in combined
oppHits(p, o) == stageHits(p, o) \cup (IF oppIsWon(o) THEN {"wins"} ELSE {})

\* for (const o of opps) { ... }
stageTally(opps, p) ==
    [k \in Metrics |-> Cardinality({i \in 1..Len(opps) : k \in oppHits(p, opps[i])})]

\* one pass of "for (const p of loc.pipelines)"
stageStep(acc, loc, p, c, start, end) ==
    LET ep == c.opps[p.id]
        opps == IF ep.ok THEN oppsAnswer(ep, oppParams(loc, start, end)) ELSE <<>>
        t == stageTally(opps, p)
    IN  [combined |-> [k \in Metrics |-> acc.combined[k] + t[k]],
         byPipe   |-> Put(acc.byPipe, p.name, t)]

stageLoop(loc, c, start, end) ==
    LET F[i \in 0..Len(loc.pipelines)] ==
            IF i = 0 THEN [combined |-> Zero, byPipe |-> <<>>]
            ELSE stageStep(F[i-1], loc, loc.pipelines[i], c, start, end)
    IN  F[Len(loc.pipelines)]

\* app.get("/stats/:location") of the stage-based variant
stageStats(dir, c, param, query, now) ==
    LET slug == toLowerCase(param)
        loc == Get(dir, slug)
        w == dateRange(query, now)
        a == stageLoop(loc, c, w.start, w.end)
    IN  IF ~Truthy(loc)
        THEN [route |-> "stageStats", status |-> 404]
        ELSE IF loc = Inherited                 \* loc.pipelines is not iterable: the handler rejects
        THEN [route |-> "stageStats", status |-> 0, rejected |-> TRUE]
        ELSE [route |-> "stageStats", status |-> 200,
              location |-> slug, dateRange |-> echo(w),
              combined |-> a.combined, pipelines |-> a.byPipe]

GetStageStats(param, query, now, c) ==
    /\ pc = "listening"
    /\ Idle
    /\ req' = [route |-> "stageStats", location |-> param, query |-> query, now |-> now]
    /\ crm' = c
    /\ resp' = stageStats(LOCS, c, param, query, now)
    /\ UNCHANGED <<world, csvSent, csvRows, pc, LOCS, pending>>

\* --------------------------------------------- stage-based variant: inputs
stageNamed(name, n) == [name |-> name, id |-> StageId(n)]

AllStages ==
    << leadStage, wonStage,
       stageNamed(<<"A", "p", "p", "o", "i", "n", "t", "m", "e", "n", "t">>, 4),
       stageNamed(<<"S", "h", "o", "w">>, 5),
       stageNamed(<<"N", "o", " ", "S", "h", "o", "w">>, 6),
       stageNamed(<<"c", "o", "l", "d">>, 7) >>

\* the stages lookup throws, or lists every stage, or only the first two
StageMaps ==
    { [ok |-> FALSE, stages |-> <<>>],
      [ok |-> TRUE, stages |-> AllStages],
      [ok |-> TRUE, stages |-> SubSeq(AllStages, 1, 2)] }

StageMapChoices == {[p \in PipeIds |-> s] : s \in StageMaps}

TaggedOpp(stage, tags) == [stageId |-> stage, created |-> Day(5), tags |-> tags]

StageOppItems ==
    { <<>>,
      <<TaggedOpp(StageId(1), <<>>), TaggedOpp(StageId(4), <<"won">>), TaggedOpp(StageId(5), <<>>),
        TaggedOpp(StageId(6), <<>>), TaggedOpp(StageId(7), <<"cold">>), TaggedOpp(StageId(2), <<"won">>)>>,
      <<Opp(Undefined, Day(5)), TaggedOpp(StageId(1), <<"won">>)>> }

StageOppEps ==
    {[ok |-> FALSE, dated |-> FALSE, items |-> <<>>]}
    \cup {[ok |-> TRUE, dated |-> FALSE, items |-> i] : i \in StageOppItems}

StageCrms ==
    {[opps |-> [p \in PipeIds |-> o], contacts |-> [l \in LocIds |-> EmptyEp]] : o \in StageOppEps}

\* ================================== final variant: GET /stats, call by call
(* The Promise.all of GET /stats followed one await at a time: every        *)
(* computeOne call of the selection runs with its own locals and the calls  *)
(* interleave at their fetchAll awaits.  fan.calls[j] is call j: its slug,  *)
(* the pipeline its leads loop is at, its stage and its locals.             *)

\* computeOne up to its first await: loc, combined, byPipe
newCall(dir, slug) ==
    LET loc == Get(dir, slug)
    IN  IF ~Truthy(loc) \/ loc = Inherited
        THEN [slug |-> slug, stage |-> "thrown", at |-> 0, combined |-> Zero, byPipe |-> <<>>]
        ELSE [slug |-> slug,
              stage |-> IF loc.pipelines = <<>> THEN "contacts" ELSE "leads",
              at |-> 1, combined |-> Zero, byPipe |-> initByPipe(loc.pipelines)]

\* combined and byPipe kept once per slug: call j works on those of the first call for its slug
localsBySlug(calls, j) ==
    LET first == CHOOSE i \in 1..j :
                    /\ calls[i].slug = calls[j].slug
                    /\ \A h \in 1..(i - 1) : calls[h].slug # calls[j].slug
    IN  [combined |-> calls[first].combined, byPipe |-> calls[first].byPipe]

\* const combined, const byPipe: the locals call j works on

localsOf(calls, j) == [combined |-> calls[j].combined, byPipe |-> calls[j].byPipe]

\* what a settled call resolved to
resultOf(call) ==
    IF call.stage = "thrown" THEN Thrown
    ELSE [ok |-> TRUE, location |-> call.slug,
          combined |-> call.combined, pipelines |-> call.byPipe]

\* const results = await Promise.all(wanted.map(slug => computeOne(slug, start, end)))
ManyStart(param, query, now, c) ==
    /\ pc = "listening"
    /\ Idle
    /\ wantedOf(LOCS, param) # <<>>
    /\ req' = [route |-> "statsMany", locations |-> param, query |-> query, now |-> now]
    /\ crm' = c
    /\ fan' = [pending |-> {},
               calls |-> [i \in 1..Len(wantedOf(LOCS, param)) |->
                            newCall(LOCS, wantedOf(LOCS, param)[i])]]
    /\ UNCHANGED <<envKey, csvFile, agency, locationsCache, locations,
                   csvSent, csvRows, pc, LOCS, pending, resp>>

\* if (!wanted.length) return res.status(400)
ManyNone(param, query, now) ==
    /\ pc = "listening"
    /\ Idle
    /\ wantedOf(LOCS, param) = <<>>
    /\ req' = [route |-> "statsMany", locations |-> param, query |-> query, now |-> now]
    /\ crm' = NoCrm
    /\ resp' = [route |-> "statsMany", status |-> 400, calls |-> 0]
    /\ UNCHANGED <<world, csvSent, csvRows, pc, LOCS, pending>>

\* call j: the opportunities of its next pipeline arrive (or the fetch throws)
CallLeads(j) ==
    /\ ~Idle /\ resp = NoResp
    /\ j \in 1..Len(fan.calls)
    /\ fan.calls[j].stage = "leads"
    /\ LET call == fan.calls[j]
           pipelines == OwnVal(LOCS, call.slug).pipelines
           acc == leadsStep(localsOf(fan.calls, j), pipelines[call.at], crm)
       IN  fan' = [fan EXCEPT !.calls[j] =
                      [call EXCEPT !.combined = acc.combined, !.byPipe = acc.byPipe,
                                   !.at = @ + 1,
                                   !.stage = IF call.at = Len(pipelines)
                                             THEN "contacts" ELSE "leads"]]
    /\ UNCHANGED <<envKey, csvFile, agency, locationsCache, locations,
                   csvSent, csvRows, pc, LOCS, pending, req, crm, resp>>

\* call j: its contacts arrive (or the fetch throws), it folds them and returns
CallContacts(j) ==
    /\ ~Idle /\ resp = NoResp
    /\ j \in 1..Len(fan.calls)
    /\ fan.calls[j].stage = "contacts"
    /\ LET call == fan.calls[j]
           loc == OwnVal(LOCS, call.slug)
           w == dateRange(req.query, req.now)
           acc == contactsLoop(localsOf(fan.calls, j), contactsOf(loc, crm),
                               loc.pipelines, w.start, w.end)
       IN  fan' = [fan EXCEPT !.calls[j] =
                      [call EXCEPT !.combined = acc.combined, !.byPipe = acc.byPipe,
                                   !.stage = "done"]]
    /\ UNCHANGED <<envKey, csvFile, agency, locationsCache, locations,
                   csvSent, csvRows, pc, LOCS, pending, req, crm, resp>>

\* every call resolved: sum and answer; or one rejected: catch, 500
ManyRespond ==
    /\ ~Idle /\ resp = NoResp
    /\ req.route = "statsMany"
    /\ LET results == [i \in 1..Len(fan.calls) |-> resultOf(fan.calls[i])]
           wanted == [i \in 1..Len(fan.calls) |-> fan.calls[i].slug]
           sums == foldResults(results)
           calls == SumSeq([i \in 1..Len(wanted) |-> requestsOfOne(LOCS, crm, wanted[i])])
       IN  \/ /\ \A i \in 1..Len(fan.calls) : fan.calls[i].stage = "done"
              /\ resp' = [route |-> "statsMany", status |-> 200, calls |-> calls,
                          selection |-> wanted, dateRange |-> echo(dateRange(req.query, req.now)),
                          combined |-> sums.combined, byPipeline |-> sums.byPipeline,
                          byLocation |-> fromEntries(results)]
           \/ /\ \E i \in 1..Len(fan.calls) : fan.calls[i].stage = "thrown"
              /\ resp' = [route |-> "statsMany", status |-> 500, calls |-> calls]
    /\ UNCHANGED <<envKey, csvFile, agency, locationsCache, locations, fan,
                   csvSent, csvRows, pc, LOCS, pending, req, crm>>

\* the response is out; the locals of the calls are garbage
ManyEnd ==
    /\ ~Idle /\ resp # NoResp
    /\ req' = NoReq
    /\ crm' = NoCrm
    /\ resp' = NoResp
    /\ fan' = NoFan
    /\ UNCHANGED <<envKey, csvFile, agency, locationsCache, locations,
                   csvSent, csvRows, pc, LOCS, pending>>

\* ========================================================== specification
Init ==
    /\ envKey \in BOOLEAN
    /\ csvFile = <<rowA, rowB>>
    /\ agency \in {[ok |-> FALSE, locations |-> <<>>], [ok |-> TRUE, locations |-> <<subA, subB>>]}
    /\ csvSent = 0
    /\ csvRows = <<>>
    /\ pc = "start"
    /\ LOCS = <<>>
    /\ pending = {}
    /\ req = NoReq
    /\ crm = NoCrm
    /\ resp = NoResp
    /\ locationsCache = <<>>
    /\ fan = NoFan
    /\ locations = <<>>

CrmChoices(param) ==
    IF HasOwn(LOCS, toLowerCase(param))
    THEN CrmsOf(OwnVal(LOCS, toLowerCase(param)).id)
    ELSE {BaseCrm}

Next ==
    \/ Boot
    \/ CsvData
    \/ InitMerge
    \/ InitFail
    \/ \E slug \in pending : \E ans \in PipelineAnswers(OwnVal(LOCS, slug).id) :
            PipelinesAnswer(slug, ans)
    \/ Listen
    \/ GetLocations
    \/ /\ pc = "listening" /\ Idle
       /\ \E param \in SlugParams, q \in Queries, now \in Nows : \E c \in CrmChoices(param) :
            GetStatsOne(param, q, now, c)
    \/ /\ pc = "listening" /\ Idle
       /\ \E param \in ManyParams, q \in ManyQueries, now \in Nows, c \in ManyCrms :
            GetStatsMany(param, q, now, c)
    \/ EndRequest

Spec == Init /\ [][Next]_vars

InitCache ==
    /\ envKey \in BOOLEAN
    /\ csvFile \in CsvFiles
    /\ agency \in CacheAgencies
    /\ csvSent = 0
    /\ csvRows = <<>>
    /\ pc = "start"
    /\ LOCS = <<>>
    /\ pending = {}
    /\ req = NoReq
    /\ crm = NoCrm
    /\ resp = NoResp
    /\ locationsCache = <<>>
    /\ fan = NoFan
    /\ locations = <<>>

NextCache ==
    \/ CacheBoot
    \/ CacheList
    \/ CacheListFail
    \/ CacheCsvData
    \/ CacheCsvEnd
    \/ \E i \in pending : \E ans \in CachePipelineAnswers(locationsCache[i].id) :
            CachePipelinesAnswer(i, ans)
    \/ CacheListen
    \/ GetCacheLocations
    \/ /\ pc = "listening" /\ Idle
       /\ \E param \in CacheParams, q \in ManyQueries, now \in Nows :
            \E c \in CacheCrmChoices(param) : GetCacheStats(param, q, now, c)
    \/ \E i \in fan.pending : OppsDone(i)
    \/ CacheRespond
    \/ EndRequest

SpecCache == InitCache /\ [][NextCache]_vars

InitCsv ==
    /\ envKey = TRUE
    /\ csvFile \in FullCsvFiles
    /\ agency = [ok |-> FALSE, locations |-> <<>>]
    /\ csvSent = 0
    /\ csvRows = <<>>
    /\ pc = "start"
    /\ LOCS = <<>>
    /\ pending = {}
    /\ req = NoReq
    /\ crm = NoCrm
    /\ resp = NoResp
    /\ locationsCache = <<>>
    /\ fan = NoFan
    /\ locations = <<>>

NextCsv ==
    \/ CsvLoadData
    \/ CsvLoadEnd
    \/ CsvLoadError
    \/ GetCsvLocations
    \/ /\ pc = "listening" /\ Idle
       /\ \E param \in CsvParams, q \in Queries, c \in CsvCrms : GetCsvStats(param, q, c)
    \/ \E i \in fan.pending : CalendarDone(i)
    \/ CsvRespond
    \/ EndRequest

SpecCsv == InitCsv /\ [][NextCsv]_vars

InitHybrid == Init

NextHybrid ==
    \/ Boot
    \/ CsvData
    \/ InitMerge
    \/ InitFail
    \/ \E slug \in pending : \E ans \in HybridPipelineAnswers(OwnVal(LOCS, slug).id) :
            \E stagesOf \in StagesChoices : StagesAnswer(slug, ans, stagesOf)
    \/ Listen
    \/ GetHybridLocations
    \/ /\ pc = "listening" /\ Idle
       /\ \E param \in SlugParams, q \in Queries, now \in Nows, c \in HybridCrms :
            GetHybridStats(param, q, now, c)
    \/ EndRequest

SpecHybrid == InitHybrid /\ [][NextHybrid]_vars

InitStage == Init

NextStage ==
    \/ Boot
    \/ CsvData
    \/ InitMerge
    \/ InitFail
    \/ \E slug \in pending : \E ans \in HybridPipelineAnswers(OwnVal(LOCS, slug).id) :
            \E stagesOf \in StageMapChoices : StagesAnswer(slug, ans, stagesOf)
    \/ Listen
    \/ GetHybridLocations
    \/ /\ pc = "listening" /\ Idle
       /\ \E param \in SlugParams, q \in ManyQueries, now \in Nows, c \in StageCrms :
            GetStageStats(param, q, now, c)
    \/ EndRequest

SpecStage == InitStage /\ [][NextStage]_vars

InitOverlap == Init

\* a selection naming seven slugs, and the CRM it is served from
LongParams == { Param([i \in 1..7 |-> <<"b">>]) }

LongCrms == { CrmWith(BaseCrm, "L2", [i \in 1..MaxPipes |-> Endpoint(<<leadOpp>>, 0)],
                      Endpoint(<<wonYouth>>, 0)) }

\* the positions of the calls of the request in flight
CallIds == IF "calls" \in DOMAIN fan THEN 1..Len(fan.calls) ELSE {}

NextOverlap ==
    \/ Boot
    \/ CsvData
    \/ InitMerge
    \/ InitFail
    \/ \E slug \in pending : \E ans \in PipelineAnswers(OwnVal(LOCS, slug).id) :
            PipelinesAnswer(slug, ans)
    \/ Listen
    \/ /\ pc = "listening" /\ Idle
       /\ \E param \in ManyParams, q \in ManyQueries, now \in Nows :
            \/ \E c \in ManyCrms : ManyStart(param, q, now, c)
            \/ ManyNone(param, q, now)
    \/ /\ pc = "listening" /\ Idle
       /\ \E param \in LongParams, now \in Nows, c \in LongCrms :
            ManyStart(param, [startDate |-> NoDate, endDate |-> NoDate], now, c)
    \/ \E j \in CallIds : CallLeads(j)
    \/ \E j \in CallIds : CallContacts(j)
    \/ ManyRespond
    \/ ManyEnd

SpecOverlap == InitOverlap /\ [][NextOverlap]_vars

\* ================================================================= claims
\* the directory entry a GET /stats/:location request names
reqSlug == toLowerCase(req.location)

reqLoc == OwnVal(LOCS, reqSlug)

OneServed == req.route = "statsOne" /\ HasOwn(LOCS, reqSlug)

hasErrorMarker(bucket) == "error" \in DOMAIN bucket

(* C2: when one pipeline's opportunities fetch fails, the payload of       *)
(* GET /stats/:location carries an error marker for that pipeline.         *)
C2_FailedFetchIsMarked ==
    (OneServed /\ resp.status = 200) =>
        \A i \in 1..Len(reqLoc.pipelines) :
            ~fetchAll(crm.opps[reqLoc.pipelines[i].id]).ok =>
                hasErrorMarker(OwnVal(resp.pipelines, reqLoc.pipelines[i].name))

(* C3: when the contacts fetch of the location fails on some page,         *)
(* GET /stats/:location answers 500.                                        *)
C3_ContactsFailureAborts ==
    (OneServed /\ ~fetchAll(crm.contacts[reqLoc.id]).ok) => resp.status = 500

\* the window and the selection of a GET /stats request
reqWindow == dateRange(req.query, req.now)

reqWanted == wantedOf(LOCS, req.locations)

oneOf(slug) == computeOne(LOCS, crm, slug, reqWindow.start, reqWindow.end)

IsDistinct(s) == \A i, j \in 1..Len(s) : s[i] = s[j] => i = j

(* C4: for a selection of distinct configured slugs none of which fails,   *)
(* every combined metric of GET /stats is the sum of computeOne's combined *)
(* metric over the selected slugs.                                          *)
C4_CombinedIsSum ==
    (req.route = "statsMany" /\ resp.status = 200 /\ IsDistinct(resp.selection)) =>
        \A k \in Metrics :
            resp.combined[k] =
                SumSeq([i \in 1..Len(resp.selection) |-> oneOf(resp.selection[i]).combined[k]])

C4_Witness ==
    /\ req.route = "statsMany" /\ resp.status = 200
    /\ Len(resp.selection) = 2 /\ IsDistinct(resp.selection)
    /\ resp.combined.wins = 2
    /\ resp.combined.leads >= 2

(* C5: when computeOne fails for one selected location and succeeds for    *)
(* another, GET /stats still answers 200 and combined sums the locations   *)
(* that succeeded.                                                          *)
C5_FailureDoesNotAbort ==
    LET okAt == {i \in 1..Len(reqWanted) : oneOf(reqWanted[i]).ok}
    IN  (req.route = "statsMany" /\ okAt # {} /\ okAt # 1..Len(reqWanted)) =>
            /\ resp.status = 200
            /\ \A k \in Metrics :
                    resp.combined[k] =
                        SumSeq([i \in 1..Len(reqWanted) |->
                                    IF i \in okAt THEN oneOf(reqWanted[i]).combined[k] ELSE 0])

\* the requested slugs that are keys of the directory, in the order requested
reqInDirectory ==
    LET items == req.locations.items
        pieces == [i \in 1..Len(items) |-> trim(toLowerCase(items[i]))]
    IN  IF pickAll(req.locations) THEN Keys(LOCS)
        ELSE Filter(pieces, {x \in Range(pieces) : HasOwn(LOCS, x)})

(* C6: GET /stats drops the requested slugs that are not in the directory: *)
(* it answers 400 exactly when none is left, and otherwise succeeds with   *)
(* the selection being the requested slugs that are in the directory.      *)
C6_UnknownSlugsDropped ==
    req.route = "statsMany" =>
        /\ (resp.status = 400) <=> (reqInDirectory = <<>>)
        /\ resp.status \in {200, 400}
        /\ resp.status = 200 => resp.selection = reqInDirectory

\* the request is a GET /stats/:location for a slug that is not in the directory
UnknownSlugAsked ==
    CASE req.route = "statsOne" -> ~HasOwn(LOCS, reqSlug)
      [] req.route = "csvStats" -> findLocation(locations, reqSlug) = 0
      [] OTHER -> FALSE

(* C7: GET /stats/:location for a slug that is not in the directory        *)
(* answers 404 and issues no CRM request, whatever the query (dates        *)
(* present, absent or invalid).                                             *)
C7_UnknownSlugIs404 ==
    UnknownSlugAsked => resp.status = 404 /\ resp.calls = 0

\* the contacts GET /stats/:location fetched, and those a window [s, e] counts for metric k
reqContacts == contactsOf(reqLoc, crm)

tagOf(k) == CHOOSE t \in OutcomeTags : OutcomeOf(t) = k

countedIn(contacts, k, s, e) ==
    Cardinality({i \in 1..Len(contacts) :
                    /\ contacts[i].dateUpdated.kind = "date"
                    /\ s <= contacts[i].dateUpdated.ms
                    /\ contacts[i].dateUpdated.ms <= e
                    /\ tagOf(k) \in lowerTags(contacts[i])})

DatesSupplied == req.query.startDate.kind = "date" /\ req.query.endDate.kind = "date"

(* C10: with startDate and endDate supplied as dates, a contact counts      *)
(* toward an outcome metric exactly when its dateUpdated lies between       *)
(* 00:00:00.000 of startDate and 23:59:59.999 of endDate, both included.    *)
C10_WindowInclusive ==
    (OneServed /\ resp.status = 200 /\ DatesSupplied) =>
        \A k \in Metrics \ {"leads"} :
            resp.combined[k] =
                countedIn(reqContacts, k, req.query.startDate.ms,
                          req.query.endDate.ms + DayMs - 1)

C10_Witness ==
    /\ OneServed /\ resp.status = 200
    /\ req.query.endDate = DateOf(Day(6))
    /\ reqContacts = <<lastMs, nextDay>>
    /\ resp.combined.wins = 1

\* the cache entry a GET /stats/:location request of the locationsCache variant names
cacheAt == findSlug(locationsCache, toLowerCase(req.location))

cacheLoc == locationsCache[cacheAt]

CacheServed ==
    /\ req.route = "cacheStats" /\ resp # NoResp
    /\ cacheAt # 0 /\ cacheLoc.apiKey # NullKey

oppsOf(i) == getOnce(crm.opps[cacheLoc.pipelines[i].id])

(* C1: when some pipeline's opportunities fetch throws and another's        *)
(* succeeds, GET /stats/:location answers 200, the entry of every failed    *)
(* pipeline is the error marker, and the entry of every succeeded pipeline  *)
(* holds the counts of its fetched records.                                 *)
C1_PartialFailureIsReported ==
    LET n == Len(cacheLoc.pipelines)
    IN  (CacheServed /\ (\E i \in 1..n : ~oppsOf(i).ok) /\ (\E i \in 1..n : oppsOf(i).ok)) =>
            /\ resp.status = 200
            /\ \A i \in 1..n :
                    OwnVal(resp.pipelines, cacheLoc.pipelines[i].name) =
                        IF oppsOf(i).ok THEN oppCounts(oppsOf(i).data) ELSE ErrorMarker

\* the request is a GET /stats/<slug> for a slug GET /locations lists, and is answered
ListedSlugAsked ==
    /\ resp # NoResp
    /\ CASE req.route = "statsOne" ->
               \E e \in Range(locationsList(LOCS)) : e.slug = req.location
          [] req.route = "cacheStats" ->
               \E e \in Range(cacheList(locationsCache)) : e.slug = req.location
          [] OTHER -> FALSE

(* C8: after initialization, GET /stats/<slug> answers 200 for every slug  *)
(* that GET /locations lists, whatever the CRM answers.                    *)
C8_ListedSlugIsServed ==
    ListedSlugAsked => resp.status = 200

(* C9: after initialization no two entries of the directory have the same  *)
(* slug (the directory is LOCS, locationsCache or locations, by variant).  *)
C9_SlugsAreUnique ==
    pc = "listening" =>
        /\ IsDistinct(Keys(LOCS))
        /\ IsDistinct([i \in 1..Len(locationsCache) |-> locationsCache[i].slug])
        /\ IsDistinct([i \in 1..Len(locations) |-> locations[i].slug])

\* a request of the final variant whose window dateRange resolved
WindowResolved == req.route \in {"statsOne", "statsMany"}

(* C11: for every request, whatever its startDate and endDate (present,    *)
(* absent, unparseable, or startDate later than endDate), the window that  *)
(* dateRange resolves has start <= end.                                    *)
C11_WindowOrdered ==
    WindowResolved => reqWindow.start <= reqWindow.end

(* C12: dateRange returns the window from 00:00:00.000 of startDate to     *)
(* 23:59:59.999 of endDate exactly when both are supplied and both parse,  *)
(* and the window of the 30 days ending now in every other case.           *)
C12_ExplicitIffBothParse ==
    WindowResolved =>
        IF DatesSupplied
        THEN /\ reqWindow.start = req.query.startDate.ms
             /\ reqWindow.end = req.query.endDate.ms + DayMs - 1
        ELSE /\ reqWindow.end = req.now
             /\ reqWindow.start + 10 * DayMs + 10 * DayMs + 10 * DayMs = req.now

C12_Witness ==
    /\ req.route = "statsOne" /\ resp.status = 200
    /\ req.query.startDate.kind = "date" /\ req.query.endDate.kind = "bad"
    /\ resp.dateRange = [startDate |-> IsoDay(req.now) - 30, endDate |-> IsoDay(req.now)]

\* a GET /stats/:location of the final or the hybrid variant answered 200
StatsAnswered ==
    /\ req.route \in {"statsOne", "hybridStats"}
    /\ HasOwn(LOCS, reqSlug)
    /\ resp.status = 200

(* C13: an outcome metric counts only contacts whose dateUpdated is a       *)
(* timestamp within [start, end]: a contact whose dateUpdated is missing   *)
(* or unparseable adds to no outcome metric, whatever the window.          *)
C13_OnlyDatedContactsCount ==
    StatsAnswered =>
        \A k \in Metrics \ {"leads"} :
            resp.combined[k] <= countedIn(reqContacts, k, reqWindow.start, reqWindow.end)

\* the contacts endpoint GET /stats/:location paged through, and what fetchAll made of it
reqContactsEp == crm.contacts[reqLoc.id]

reqFetch == fetchAll(reqContactsEp)

RECURSIVE PagesUpTo(_, _)
PagesUpTo(ep, n) == IF n = 0 THEN <<>> ELSE PagesUpTo(ep, n - 1) \o PageOf(ep, n)

(* C14: fetchAll asks for pages 1, 2, 3, ... of 50 items, asks for page     *)
(* N+1 exactly when page N came back with 50 items, and returns the pages  *)
(* it received, in order, up to and including the first shorter one.       *)
C14_PagesUntilShort ==
    (OneServed /\ reqFetch.ok) =>
        /\ \A n \in 1..reqFetch.requests :
                (n < reqFetch.requests) <=> (Len(PageOf(reqContactsEp, n)) = 50)
        /\ reqFetch.all = PagesUpTo(reqContactsEp, reqFetch.requests)
        /\ \A k \in Metrics \ {"leads"} :
                resp.combined[k] = countedIn(reqFetch.all, k, reqWindow.start, reqWindow.end)

C14_Witness ==
    /\ OneServed /\ resp.status = 200
    /\ Len(reqContactsEp.items) = 101
    /\ reqFetch.requests = 3
    /\ Len(reqFetch.all) = 101
    /\ resp.combined.wins = 1

\* the answer to the request of the state had its query been q, the CRM being the same
answerUnder(q) ==
    IF req.route = "statsOne"
    THEN statsOne(LOCS, crm, req.location, q, req.now)
    ELSE hybridStats(LOCS, crm, req.location, q, req.now)

\* the parameters of the opportunities request the handler sends under query q
oppRequestUnder(q) ==
    IF req.route = "statsOne"
    THEN [locationId |-> reqLoc.id]
    ELSE oppParams(reqLoc, dateRange(q, req.now).start, dateRange(q, req.now).end)

leadsOfAnswer(r) ==
    [combined |-> r.combined.leads,
     pipelines |-> [i \in 1..Len(r.pipelines) |->
                        [key |-> r.pipelines[i].key, leads |-> r.pipelines[i].val.leads]]]

(* C15: over the same CRM data, the leads of a location (combined.leads and *)
(* each pipeline's leads) and the opportunities request that fetched them  *)
(* are the same under every other date window.                             *)
C15_LeadsIgnoreWindow ==
    StatsAnswered =>
        \A q \in Queries :
            /\ oppRequestUnder(q) = oppRequestUnder(req.query)
            /\ leadsOfAnswer(answerUnder(q)) = leadsOfAnswer(resp)

\* the lead counts alone
C15_LeadCountsIgnoreWindow ==
    StatsAnswered =>
        \A q \in Queries : leadsOfAnswer(answerUnder(q)) = leadsOfAnswer(resp)

\* the fetched contacts the window of the request counts, by position
countedAt == {i \in 1..Len(reqContacts) :
                inWindow(reqContacts[i], reqWindow.start, reqWindow.end)}

\* those carrying the outcome tag of metric k, and those also tagged with pipeline name n
taggedAt(k) == {i \in countedAt : tagOf(k) \in lowerTags(reqContacts[i])}

taggedIn(k, n) == {i \in taggedAt(k) : n \in lowerTags(reqContacts[i])}

reqNames == [i \in 1..Len(reqLoc.pipelines) |-> reqLoc.pipelines[i].name]

(* C16: every contact inside the window adds exactly 1 to combined[t] for   *)
(* each outcome tag t it carries, exactly 1 to the bucket of every          *)
(* configured pipeline whose name is among its tags, and nothing to the     *)
(* other buckets.                                                           *)
C16_TagFold ==
    (OneServed /\ resp.status = 200) =>
        \A k \in Metrics \ {"leads"} :
            /\ resp.combined[k] = Cardinality(taggedAt(k))
            /\ \A j \in 1..Len(reqNames) :
                    OwnVal(resp.pipelines, reqNames[j])[k] = Cardinality(taggedIn(k, reqNames[j]))

\* the same rule over locations whose configured pipelines have distinct names
C16_TagFoldDistinct ==
    (OneServed /\ IsDistinct(reqNames)) => C16_TagFold

bucketSum(k) == SumSeq([i \in 1..Len(resp.pipelines) |-> resp.pipelines[i].val[k]])

(* C17: in every per-location response each combined metric is at most the *)
(* sum of that metric over the pipeline buckets, and equals it when no      *)
(* counted contact carries several pipeline names.                          *)
C17_CombinedWithinBuckets ==
    (OneServed /\ resp.status = 200) =>
        \A k \in Metrics :
            /\ resp.combined[k] <= bucketSum(k)
            /\ (\A i \in countedAt :
                    Cardinality(lowerTags(reqContacts[i]) \cap Range(reqNames)) <= 1)
                    => resp.combined[k] = bucketSum(k)

\* the configured pipelines of the request's location that feed the bucket named n
feeding(pipelines, n) == {i \in 1..Len(pipelines) : pipelines[i].name = n}

\* no record contributed to bucket n: no lead-stage opportunity, no counted tagged contact
nothingFor(n) ==
    /\ \A i \in feeding(reqLoc.pipelines, n) :
            LET r == fetchAll(crm.opps[reqLoc.pipelines[i].id])
            IN  ~r.ok \/ \A o \in Range(r.all) : ~inLeadStage(o)
    /\ \A k \in Metrics \ {"leads"} : taggedIn(k, n) = {}

cacheNothingFor(n) ==
    \A i \in feeding(cacheLoc.pipelines, n) : ~oppsOf(i).ok \/ oppsOf(i).data = <<>>

(* C18: whatever each sub-fetch did (records, none, failure), the pipelines *)
(* map of a per-location response has an entry for every configured         *)
(* pipeline, and the entry of a pipeline no record contributed to holds     *)
(* all-zero counts.                                                         *)
C18_EveryPipelineHasABucket ==
    /\ (OneServed /\ resp.status = 200) =>
            \A n \in Range(reqNames) :
                /\ HasOwn(resp.pipelines, n)
                /\ nothingFor(n) => OwnVal(resp.pipelines, n) = Zero
    /\ (CacheServed /\ resp.status = 200) =>
            \A i \in 1..Len(cacheLoc.pipelines) :
                LET n == cacheLoc.pipelines[i].name
                IN  /\ HasOwn(resp.pipelines, n)
                    /\ cacheNothingFor(n) => OwnVal(resp.pipelines, n) = oppCounts(<<>>)

\* the calls of the request in flight that have returned
doneCalls == {j \in 1..Len(fan.calls) : fan.calls[j].stage = "done"}

InFlight == req.route = "statsMany" /\ "calls" \in DOMAIN fan

(* C19: two computeOne calls for the same slug and window over unchanged    *)
(* CRM data return identical results, whether one runs after the other or  *)
(* the two overlap: each returns what a call running alone returns.        *)
C19_SameCallSameResult ==
    InFlight =>
        /\ \A i, j \in doneCalls :
                fan.calls[i].slug = fan.calls[j].slug
                    => resultOf(fan.calls[i]) = resultOf(fan.calls[j])
        /\ \A j \in doneCalls : resultOf(fan.calls[j]) = oneOf(fan.calls[j].slug)

C19_Witness ==
    /\ InFlight
    /\ doneCalls = {1, 2}
    /\ fan.calls[1].slug = fan.calls[2].slug
    /\ fan.calls[2].combined.leads >= 1
    /\ fan.calls[2].combined.wins >= 1

\* init() has resolved: the sub-accounts are merged and every pipelines lookup has settled
InitResolved == pc = "awaitPipelines" /\ pending = {}

NothingServed == Idle /\ resp = NoResp

(* C20: when the agency key is not in the environment, or init() rejects,   *)
(* the process never listens and never serves a request; and in every run  *)
(* the step that starts listening is taken only once init() has resolved.  *)
C20_ListenOnlyAfterInit ==
    /\ []((~envKey \/ ~agency.ok) => (pc # "listening" /\ NothingServed))
    /\ [][(pc' = "listening" /\ pc # "listening") => InitResolved]_vars

C20_Witness ==
    /\ envKey /\ ~agency.ok
    /\ pc = "exited"
    /\ NothingServed

\* the computeOne calls of the request that have started and not yet settled
runningCalls == {j \in 1..Len(fan.calls) : fan.calls[j].stage \in {"leads", "contacts"}}

(* C21: while a GET /stats request is served, at most six computeOne calls *)
(* are in flight at the same time, whatever the size of the selection.     *)
C21_BoundedFanOut ==
    InFlight => Cardinality(runningCalls) <= 6

rekeyed(dir, k) ==
    [i \in 1..Len(dir) |-> [key |-> dir[i].key, val |-> [dir[i].val EXCEPT !.apiKey = k]]]

OtherKeys == { <<>>, <<"x">>, <<"k">> }

(* C23: every element of the GET /locations response carries only the slug *)
(* and the id of a location, never its API key, and the response is the    *)
(* same for every directory that differs from this one only in API keys.   *)
C23_LocationsHideKeys ==
    (req.route = "locations" /\ resp.status = 200) =>
        /\ \A i \in 1..Len(resp.body) : DOMAIN resp.body[i] = {"slug", "id"}
        /\ Len(resp.body) = Len(LOCS)
        /\ \A k \in OtherKeys : locationsList(rekeyed(LOCS, k)) = resp.body

C23_Witness ==
    /\ req.route = "locations" /\ resp.status = 200
    /\ Len(resp.body) = 2
    /\ \A i \in 1..Len(LOCS) : LOCS[i].val.apiKey # <<>>

\* the paginated fetches of the request: the contacts, and each pipeline's opportunities
reqOppFetch(i) == fetchAll(crm.opps[reqLoc.pipelines[i].id])

reqFetches == {reqFetch} \cup {reqOppFetch(i) : i \in 1..Len(reqLoc.pipelines)}

headcountOf(r) == Cardinality({i \in 1..Len(r.all) : inLeadStage(r.all[i])})

(* C24: within a request, a paginated fetch whose page request fails asks   *)
(* for nothing after it (no retry, no later page), no fetch asks for a page *)
(* twice, and the failed sub-resource adds no record to the result.         *)
C24_FailureIsTerminal ==
    (OneServed /\ resp.status = 200) =>
        /\ \A r \in reqFetches :
                /\ IsDistinct(r.asked)
                /\ ~r.ok => r.all = <<>>
        /\ \A ep \in {reqContactsEp} \cup {crm.opps[reqLoc.pipelines[i].id] :
                                                i \in 1..Len(reqLoc.pipelines)} :
                ep.failAt > 0 /\ ~fetchAll(ep).ok =>
                    fetchAll(ep).asked[Len(fetchAll(ep).asked)] = ep.failAt
        /\ ~reqFetch.ok => \A k \in Metrics \ {"leads"} : resp.combined[k] = 0
        /\ resp.combined.leads =
                SumSeq([i \in 1..Len(reqLoc.pipelines) |->
                            IF reqOppFetch(i).ok THEN headcountOf(reqOppFetch(i)) ELSE 0])
        /\ resp.calls = SumSeq([i \in 1..Len(reqLoc.pipelines) |-> Len(reqOppFetch(i).asked)])
                            + Len(reqFetch.asked)

\* a fetch that failed on its second page, after a full first page of lead-stage records
C24_Witness ==
    /\ OneServed /\ resp.status = 200
    /\ Len(reqLoc.pipelines) >= 1
    /\ \A i \in 1..Len(reqLoc.pipelines) :
            ~reqOppFetch(i).ok /\ reqOppFetch(i).asked = <<1, 2>>
    /\ resp.combined.leads = 0

\* the accumulators when the sibling fetches complete in the order of loc.pipelines
settledInOrder ==
    LET start == fanStart(cacheLoc, crm, reqWindow)
        F[i \in 0..Len(cacheLoc.pipelines)] ==
            IF i = 0 THEN start ELSE oppsSettled(F[i-1], i, crm)
    IN  F[Len(cacheLoc.pipelines)]

\* an object as the set of its entries (the order of its keys put aside)
entriesOf(obj) == Range(obj)

(* C25: the response of the handler that folds sibling pipeline fetches as *)
(* they arrive (combined and every per-pipeline entry) is the one obtained *)
(* when the fetches complete in pipeline order, whatever order they        *)
(* completed in.                                                            *)
C25_OrderIndependent ==
    (CacheServed /\ resp.status = 200) =>
        /\ resp.combined = settledInOrder.combined
        /\ entriesOf(resp.pipelines) = entriesOf(settledInOrder.out)

\* the same over locations whose pipelines have distinct names
C25_OrderIndependentDistinct ==
    (CacheServed /\ resp.status = 200
        /\ IsDistinct([i \in 1..Len(cacheLoc.pipelines) |-> cacheLoc.pipelines[i].name]))
    => C25_OrderIndependent

(* C26: with startDate and endDate supplied and parseable, the window ends *)
(* at 23:59:59.999 of the calendar day of endDate, also when endDate        *)
(* carries a time of day, and the response echoes that day as endDate.     *)
C26_EndIsLastMsOfDay ==
    (OneServed /\ resp.status = 200 /\ DatesSupplied) =>
        /\ reqWindow.end = IsoDay(req.query.endDate.ms) * DayMs + EndOfDay
        /\ resp.dateRange.endDate = IsoDay(req.query.endDate.ms)

\* the rows of the CSV file whose name matches a sub-account of the agency's list
matchingRows ==
    {i \in 1..Len(csvFile) : findMatch(agency.locations, csvRow(csvFile[i])) # Undefined}

(* C27: when the server starts listening, every CSV row whose name matches *)
(* a remote sub-account is in LOCS, however the "data" events of the CSV   *)
(* stream interleave with the arrival of the sub-account list.             *)
C27_EveryMatchingRowMerged ==
    pc = "listening" =>
        \A i \in matchingRows : HasOwn(LOCS, csvRow(csvFile[i]).slug)

(* C28: in the GET /stats response every combined metric is the sum of     *)
(* that metric over the entries of byLocation, for every value of the      *)
(* locations parameter, one naming a configured slug twice included.       *)
C28_CombinedIsSumOfByLocation ==
    (req.route = "statsMany" /\ resp.status = 200) =>
        \A k \in Metrics :
            resp.combined[k] =
                SumSeq([i \in 1..Len(resp.byLocation) |-> resp.byLocation[i].val.combined[k]])

\* the opportunities the stage-based handler fetched for pipeline p of the request's location
stageOppsOf(p) ==
    IF crm.opps[p.id].ok
    THEN oppsAnswer(crm.opps[p.id], oppParams(reqLoc, reqWindow.start, reqWindow.end))
    ELSE <<>>

StageMetrics == {"leads", "appointments", "shows", "noShows", "cold"}

(* C29: in the stage-based handler every fetched opportunity increments at *)
(* most one of leads, appointments, shows, noShows and cold, whatever      *)
(* stage map initialization left (complete, partial or empty) and also for *)
(* an opportunity without stageId.                                          *)
C29_OneStagePerOpportunity ==
    (req.route = "stageStats" /\ HasOwn(LOCS, reqSlug) /\ resp.status = 200) =>
        /\ \A i \in 1..Len(reqLoc.pipelines) :
                \A o \in Range(stageOppsOf(reqLoc.pipelines[i])) :
                    Cardinality(stageHits(reqLoc.pipelines[i], o)) <= 1
        /\ SumSeq([i \in 1..Len(reqLoc.pipelines) |-> Len(stageOppsOf(reqLoc.pipelines[i]))])
                >= resp.combined.leads + resp.combined.appointments + resp.combined.shows
                    + resp.combined.noShows + resp.combined.cold

\* the same over pipelines whose stage map holds the five stages
C29_OneStageWhenMapComplete ==
    (req.route = "stageStats" /\ HasOwn(LOCS, reqSlug) /\ resp.status = 200
        /\ \A i \in 1..Len(reqLoc.pipelines) :
                \A j \in 1..Len(StageKeys) : HasOwn(reqLoc.pipelines[i].stageIds, StageKeys[j].key))
    => C29_OneStagePerOpportunity

\* the endpoints the request paged through, each with what fetchAll made of it
reqPaged ==
    {[ep |-> reqContactsEp, got |-> reqFetch]}
    \cup {[ep |-> crm.opps[reqLoc.pipelines[i].id], got |-> reqOppFetch(i)] :
                i \in 1..Len(reqLoc.pipelines)}

(* C30: over an upstream collection of N items whose pages never fail,     *)
(* fetchAll ends after exactly floor(N/50)+1 page requests, for pages      *)
(* 1, 2, ... in order; when N is a positive multiple of 50 the last page    *)
(* asked for is empty; what it returns is the collection, every item once. *)
C30_ExactlyFloorPlusOnePages ==
    (OneServed /\ resp.status = 200) =>
        \A f \in {g \in reqPaged : g.ep.failAt = 0} :
            LET N == Len(f.ep.items)
                n == Len(f.got.asked)
            IN  /\ f.got.ok
                /\ n = N \div 50 + 1
                /\ f.got.asked = [i \in 1..n |-> i]
                /\ (N > 0 /\ N % 50 = 0) => PageOf(f.ep, f.got.asked[n]) = <<>>
                /\ f.got.all = f.ep.items

C30_Witness ==
    /\ OneServed /\ resp.status = 200
    /\ reqContactsEp.failAt = 0
    /\ Len(reqContactsEp.items) = 50
    /\ reqFetch.asked = <<1, 2>>
    /\ PageOf(reqContactsEp, 2) = <<>>
    /\ Len(reqFetch.all) = 50

====
